---- MODULE Spec2Model ----
(***************************************************************************)
(* Model of the preconf-rpc gateway: the lookahead table, the relay        *)
(* lookahead provider fed by the head-event broadcast channel, the         *)
(* lookahead manager and the HTTP forward handler.                         *)
(***************************************************************************)
EXTENDS Integers, Sequences, FiniteSets, TLC

VARIABLES
    config,                 \* immutable construction inputs of the chain's manager and provider
    beacon,                 \* MultiBeaconClient: number of beacon_clients and best_beacon_instance
    duties_calls,           \* caller -> its get_proposer_duties call between two awaits ({}: no call)
    sse,                    \* the beacon nodes' head streams and the position of each SSE task
    rx_other,               \* the receivers of the other subscribers of the head channel
    lookahead,              \* the chain's Lookahead (shared Arc<DashMap>) of manager and provider
    head_slot,              \* LookaheadContext.head_slot
    curr_lookahead_epoch,   \* LookaheadContext.curr_lookahead_epoch
    provider_manager,       \* LookaheadManager.provider_manager (Option<LookaheadProviderManager>)
    tasks,                  \* number of provider tasks spawned by run_provider
    provider_pc,            \* position of the provider task
    rx_queue,               \* head events retained in the broadcast channel for the provider's receiver
    rx_lagged,              \* the receiver was overrun: its next recv() returns Err(Lagged)
    head_event,             \* the last head event the provider received ({} before the first), and
                            \* whether it carried the same slot as the one received before it
    next_relay,             \* index in `relays` of the next result the fetch loop applies (0: not fetching)
    fetches,                \* head slot -> number of relay fetches issued at that slot
    fetch_epoch,            \* the `epoch` argument of the running fetch_preconfer_lookahead (0: none)
    traffic,                \* counters of the forwarding tests: requests sent by batch_requests
                            \* that resolved a URL, POSTs the gateway issued, requests the
                            \* upstream handled
    outcome                 \* what the call made in the last step returned (run_provider, HTTP handler)

vars == <<config, beacon, duties_calls, sse, rx_other, lookahead, head_slot, curr_lookahead_epoch, provider_manager, tasks,
          provider_pc, rx_queue, rx_lagged, head_event, next_relay, fetches, fetch_epoch,
          traffic, outcome>>

----------------------------------------------------------------------------
(* Program constants *)

EPOCH_SLOTS == 32

BROADCAST_CAPACITY == 16

FETCH_EVERY == 6

(* Bounds of the model *)

\* head events kept unread in the channel under Spec
MaxQueued == 2

\* longest election list one relay answers with
MaxElections == 2

\* requests of one batch_requests run that resolve a URL (SpecForward)
MaxRequests == 3

\* slots the beacon nodes report under Spec
HeadSlots == {0, 6, 7, 36}

\* slots the beacon nodes report under SpecLag (in non-decreasing order)
LagSlots == {6, 7}

\* the configured relay list of the chain (relay_urls)
Relays == <<"http://relay1", "http://relay2">>

\* chain ids of the manager map, and chain ids requests may carry
ManagerChains == {1}

RequestChains == {1, 2}

PubKeys == {"0x4242", "0x0000"}

\* elections the relays may answer with: (slot_number, preconfer_pubkey)
Elections ==
    { [slot_number |-> 5,  preconfer_pubkey |-> "0x4242"],
      [slot_number |-> 7,  preconfer_pubkey |-> "0x4242"],
      [slot_number |-> 7,  preconfer_pubkey |-> "0x0000"],
      [slot_number |-> 40, preconfer_pubkey |-> "0x0000"] }

----------------------------------------------------------------------------
(* Url::from_str on the strings the model uses: a parsed Url is normalised *)
(* (trailing slash); "" and a host without scheme are not URLs.            *)

Url_from_str(s) ==
    CASE s = "http://preconfer1:8000" -> [ok |-> TRUE,  url |-> "http://preconfer1:8000/"]
      [] s = "http://registry1:9000"  -> [ok |-> TRUE,  url |-> "http://registry1:9000/"]
      [] OTHER                        -> [ok |-> FALSE, url |-> ""]

EmptyMap == [k \in {} |-> 0]

\* HashMap::get(..).cloned().unwrap_or_default()
GetOrDefault(m, k) == IF k \in DOMAIN m THEN m[k] ELSE ""

(* Construction inputs: the URL policy with its registry map (config), the  *)
(* provider's own preconfer registry (RelayLookaheadProvider::new), and the *)
(* kind of provider (LookaheadProviderOptions).                             *)
Configs ==
    { [url_provider |-> "LookaheadEntry", url_map |-> EmptyMap,
       preconfer_registry |-> EmptyMap, provider |-> "Relay"],
      [url_provider |-> "LookaheadEntry", url_map |-> EmptyMap,
       preconfer_registry |-> [k \in PubKeys |->
            IF k = "0x4242" THEN "http://preconfer1:8000" ELSE "preconfer2"],
       provider |-> "Relay"],
      [url_provider |-> "UrlMap",
       url_map |-> [k \in {"0x4242"} |-> Url_from_str("http://registry1:9000").url],
       preconfer_registry |-> [k \in {"0x4242"} |-> "http://preconfer1:8000"],
       provider |-> "Relay"] }

----------------------------------------------------------------------------
(* Lookahead table *)

LookaheadEntry(url, election) == [url |-> url, election |-> election]

\* LookaheadEntry::slot
EntrySlot(entry) == entry.election.slot_number

Multi(m) == [kind |-> "Multi", map |-> m, single |-> {}]

Single(s) == [kind |-> "Single", map |-> EmptyMap, single |-> s]

\* mutant: the entry under head_slot itself is pruned too
clear_slots_inclusive(l, slot) ==
    IF l.kind = "Single" THEN l
    ELSE Multi([k \in {j \in DOMAIN l.map : j > slot} |-> l.map[k]])

\* mutant: every accepted head empties the table
clear_slots_all(l, slot) ==
    IF l.kind = "Single" THEN l ELSE Multi(EmptyMap)

clear_slots(l, slot) ==
    IF l.kind = "Single" THEN l
    ELSE Multi([k \in {j \in DOMAIN l.map : j >= slot} |-> l.map[k]])

\* mutant: an occupied slot keeps its first entry
insert_if_absent(l, election_slot, entry) ==
    IF l.kind = "Single" THEN Single({entry})
    ELSE Multi([k \in DOMAIN l.map \cup {election_slot} |->
                    IF k \in DOMAIN l.map THEN l.map[k] ELSE entry])

insert(l, election_slot, entry) ==
    IF l.kind = "Single" THEN Single({entry})
    ELSE Multi([k \in DOMAIN l.map \cup {election_slot} |->
                    IF k = election_slot THEN entry ELSE l.map[k]])

\* mutant: max_by_key in place of min_by_key
get_next_elected_preconfer_max(l) ==
    IF l.kind = "Single" THEN l.single
    ELSE { l.map[k] : k \in { j \in DOMAIN l.map :
                \A i \in DOMAIN l.map : EntrySlot(l.map[j]) >= EntrySlot(l.map[i]) } }

\* The values get_next_elected_preconfer can return: {} is None; several
\* values only when two entries share the minimal election slot (min_by_key
\* keeps the first one met, in the map's iteration order).
get_next_elected_preconfer(l) ==
    IF l.kind = "Single" THEN l.single
    ELSE { l.map[k] : k \in { j \in DOMAIN l.map :
                \A i \in DOMAIN l.map : EntrySlot(l.map[j]) <= EntrySlot(l.map[i]) } }

----------------------------------------------------------------------------
(* Lookahead manager *)

NoLookaheadMsg == <<"no lookahead provider found">>

NoKeyMsg(pub_key) == <<"could not find key for pubkey ", pub_key>>

AlreadyRunningMsg == <<"context provider is already running.">>

Ok(url) == [tag |-> "Ok", url |-> url, msg |-> <<>>]

Err(msg) == [tag |-> "Err", url |-> "", msg |-> msg]

Panic(msg) == [tag |-> "Panic", url |-> "", msg |-> msg]

\* mutant: the registry policy falls back on a usable entry.url
resolve_url_prefers_entry(cfg, entry) ==
    IF Url_from_str(entry.url).ok
    THEN Ok(Url_from_str(entry.url).url)
    ELSE IF cfg.url_provider = "LookaheadEntry"
         THEN Panic(<<"not a valid url">>)
         ELSE IF entry.election.preconfer_pubkey \in DOMAIN cfg.url_map
              THEN Ok(cfg.url_map[entry.election.preconfer_pubkey])
              ELSE Err(NoKeyMsg(entry.election.preconfer_pubkey))

NoOutcome == [op |-> "none"]

\* the url_provider match of get_url, for the entry found
resolve_url(cfg, entry) ==
    IF cfg.url_provider = "LookaheadEntry"
    THEN IF Url_from_str(entry.url).ok
         THEN Ok(Url_from_str(entry.url).url)
         ELSE Panic(<<"not a valid url">>)
    ELSE IF entry.election.preconfer_pubkey \in DOMAIN cfg.url_map
         THEN Ok(cfg.url_map[entry.election.preconfer_pubkey])
         ELSE Err(NoKeyMsg(entry.election.preconfer_pubkey))

\* mutant: a registry miss is reported as a missing lookahead
get_url_miss_as_no_lookahead(cfg, l) ==
    IF get_next_elected_preconfer(l) = {}
    THEN {Err(NoLookaheadMsg)}
    ELSE {IF resolve_url(cfg, entry).tag = "Err"
          THEN Err(NoLookaheadMsg)
          ELSE resolve_url(cfg, entry) : entry \in get_next_elected_preconfer(l)}

\* the results get_url can return on table l
get_url(cfg, l) ==
    IF get_next_elected_preconfer(l) = {}
    THEN {Err(NoLookaheadMsg)}
    ELSE {resolve_url(cfg, entry) : entry \in get_next_elected_preconfer(l)}

\* mutant: a Running manager spawns the provider again
RunProvider_respawn ==
    /\ \/ /\ provider_manager \in {"Initialized", "Running"}
          /\ provider_manager' = "Running"
          /\ tasks' = tasks + 1
          /\ provider_pc' = IF config.provider = "None" THEN "waiting" ELSE "recv"
          /\ outcome' = [op |-> "run_provider", result |-> Ok("")]
       \/ /\ provider_manager = "None"
          /\ outcome' = [op |-> "run_provider",
                         result |-> Panic(<<"provider manager should never be None">>)]
          /\ UNCHANGED <<provider_manager, tasks, provider_pc>>
    /\ UNCHANGED <<config, duties_calls, beacon, sse, rx_other, lookahead, head_slot, curr_lookahead_epoch, rx_queue,
                   rx_lagged, head_event, next_relay, fetches, fetch_epoch, traffic>>

\* mutant: the task of a None provider reads the head channel too
RunProvider_none_receives ==
    /\ \/ /\ provider_manager = "Initialized"
          /\ provider_manager' = "Running"
          /\ tasks' = tasks + 1
          /\ provider_pc' = "recv"
          /\ outcome' = [op |-> "run_provider", result |-> Ok("")]
       \/ /\ provider_manager = "Running"
          /\ provider_manager' = "None"
          /\ outcome' = [op |-> "run_provider", result |-> Err(AlreadyRunningMsg)]
          /\ UNCHANGED <<tasks, provider_pc>>
       \/ /\ provider_manager = "None"
          /\ outcome' = [op |-> "run_provider",
                         result |-> Panic(<<"provider manager should never be None">>)]
          /\ UNCHANGED <<provider_manager, tasks, provider_pc>>
    /\ UNCHANGED <<config, duties_calls, beacon, sse, rx_other, lookahead, head_slot,
                   curr_lookahead_epoch, rx_queue, rx_lagged, head_event, next_relay,
                   fetches, fetch_epoch, traffic>>

\* run_provider
RunProvider ==
    /\ \/ /\ provider_manager = "Initialized"
          /\ provider_manager' = "Running"
          /\ tasks' = tasks + 1
          /\ provider_pc' = IF config.provider = "None" THEN "waiting" ELSE "recv"
          /\ outcome' = [op |-> "run_provider", result |-> Ok("")]
       \/ /\ provider_manager = "Running"
          /\ provider_manager' = "None"
          /\ outcome' = [op |-> "run_provider", result |-> Err(AlreadyRunningMsg)]
          /\ UNCHANGED <<tasks, provider_pc>>
       \/ /\ provider_manager = "None"
          /\ outcome' = [op |-> "run_provider",
                         result |-> Panic(<<"provider manager should never be None">>)]
          /\ UNCHANGED <<provider_manager, tasks, provider_pc>>
    /\ UNCHANGED <<config, duties_calls, beacon, sse, rx_other, lookahead, head_slot, curr_lookahead_epoch, rx_queue,
                   rx_lagged, head_event, next_relay, fetches, fetch_epoch, traffic>>

----------------------------------------------------------------------------
(* Head-event broadcast channel *)

\* a receiver of the head channel that has nothing to read
NoReceiver == [queue |-> <<>>, lagged |-> FALSE]

\* Sender::send as one of the other receivers sees it
Retain(rx, slot) ==
    IF Len(rx.queue) < BROADCAST_CAPACITY
    THEN [queue |-> Append(rx.queue, slot), lagged |-> rx.lagged]
    ELSE [queue |-> Append(Tail(rx.queue), slot), lagged |-> TRUE]

\* Sender::send as the receivers see it: the provider's receiver and each
\* of the other receivers retains the value, the oldest retained value of a
\* receiver that is a whole channel behind is overwritten
Publish(slot) ==
    /\ IF Len(rx_queue) < BROADCAST_CAPACITY
       THEN /\ rx_queue' = Append(rx_queue, slot)
            /\ UNCHANGED rx_lagged
       ELSE /\ rx_queue' = Append(Tail(rx_queue), slot)
            /\ rx_lagged' = TRUE
    /\ rx_other' = [i \in DOMAIN rx_other |-> Retain(rx_other[i], slot)]

\* a head event sent into the chain's channel
SendHead(slot) ==
    /\ Publish(slot)
    /\ outcome' = NoOutcome
    /\ UNCHANGED <<config, duties_calls, beacon, sse, lookahead, head_slot, curr_lookahead_epoch, provider_manager,
                   tasks, provider_pc, head_event, next_relay, fetches, fetch_epoch, traffic>>

----------------------------------------------------------------------------
(* Relay lookahead provider *)

\* what one relay answers to get_elected_preconfers_for_epoch
ElectionLists == UNION { [1..n -> Elections] : n \in 0..MaxElections }

RelayAnswers ==
    { [tag |-> "Some", elections |-> el] : el \in ElectionLists }
        \cup { [tag |-> "None", elections |-> <<>>], [tag |-> "Err", elections |-> <<>>] }

\* mutant: the entry is stored under the election's slot within its epoch
add_elected_preconfer_to_lookahead_slot_in_epoch(cfg, l, election) ==
    insert(l, election.slot_number % 32,
           LookaheadEntry(GetOrDefault(cfg.preconfer_registry, election.preconfer_pubkey),
                          election))

add_elected_preconfer_to_lookahead(cfg, l, election) ==
    insert(l, election.slot_number,
           LookaheadEntry(GetOrDefault(cfg.preconfer_registry, election.preconfer_pubkey),
                          election))

RECURSIVE AddAll(_, _, _)
AddAll(cfg, l, elections) ==
    IF elections = <<>> THEN l
    ELSE AddAll(cfg, add_elected_preconfer_to_lookahead(cfg, l, Head(elections)),
                Tail(elections))

\* mutant: a relay that fails or has nothing empties the table
ApplyResult_clears_on_failure(cfg, l, result) ==
    IF result.tag = "Some" THEN AddAll(cfg, l, result.elections) ELSE Multi(EmptyMap)

\* one turn of the loop over join_all's results
ApplyResult(cfg, l, result) ==
    IF result.tag = "Some" THEN AddAll(cfg, l, result.elections) ELSE l

\* mutant: the first relay that fails or has nothing ends the loop
RECURSIVE ApplyResults_until_failure(_, _, _)
ApplyResults_until_failure(cfg, l, results) ==
    IF results = <<>> \/ Head(results).tag /= "Some" THEN l
    ELSE ApplyResults_until_failure(cfg, ApplyResult(cfg, l, Head(results)), Tail(results))

\* the whole loop over join_all's results, in the order of `relays`
RECURSIVE ApplyResults(_, _, _)
ApplyResults(cfg, l, results) ==
    IF results = <<>> THEN l
    ELSE ApplyResults(cfg, ApplyResult(cfg, l, Head(results)), Tail(results))

\* mutant: a head of the provider's own slot is handled while that slot is 0
IsStale_from_one(slot, current) == slot < current \/ (slot = current /\ slot > 0)

\* mutant: no monotonicity check
IsStale_never(slot, current) == FALSE

\* mutant: only older slots are dropped, a repeated slot is handled again
IsStale_strict(slot, current) == slot < current

\* the monotonicity check of on_new_head_event
IsStale(slot, current) == slot <= current

\* mutant: a fetch every eighth slot
ShouldFetch_every_eighth(slot) == slot % 8 = 0

\* mutant: one fetch per epoch, at the epoch's first slot
ShouldFetch_epoch_start(slot) == slot % EPOCH_SLOTS = 0

ShouldFetch(slot) == slot % FETCH_EVERY = 0

\* `let curr_epoch = head_slot / EPOCH_SLOTS`
curr_epoch(slot) == slot \div EPOCH_SLOTS

FetchCount(s) == IF s \in DOMAIN fetches THEN fetches[s] ELSE 0

\* on_new_head_event up to its await of the relays
on_new_head_event(slot) ==
    IF IsStale(slot, head_slot)
    THEN UNCHANGED <<lookahead, head_slot, provider_pc, next_relay, fetches, fetch_epoch>>
    ELSE /\ head_slot' = slot
         /\ lookahead' = clear_slots(lookahead, slot)
         /\ IF ShouldFetch(slot)
            THEN /\ provider_pc' = "fetching"
                 /\ next_relay' = 1
                 /\ fetch_epoch' = curr_epoch(slot) + 1
                 /\ fetches' = [s \in DOMAIN fetches \cup {slot} |->
                                    IF s = slot THEN FetchCount(s) + 1 ELSE fetches[s]]
            ELSE UNCHANGED <<provider_pc, next_relay, fetches, fetch_epoch>>

\* mutant: the next event is received while the fetch of the last one runs
ProviderRecv_during_fetch ==
    /\ tasks > 0
    /\ provider_pc \in {"recv", "fetching"}
    /\ ~rx_lagged
    /\ rx_queue /= <<>>
    /\ rx_queue' = Tail(rx_queue)
    /\ head_event' = {[slot |-> Head(rx_queue),
                        again |-> \E e \in head_event : e.slot = Head(rx_queue)]}
    /\ on_new_head_event(Head(rx_queue))
    /\ UNCHANGED rx_lagged
    /\ outcome' = NoOutcome
    /\ UNCHANGED <<config, duties_calls, beacon, sse, rx_other, curr_lookahead_epoch, provider_manager,
                   tasks, traffic>>

\* one turn of run's `while let Ok(head_event) = head_event_rx.recv().await`
ProviderRecv ==
    /\ tasks > 0
    /\ provider_pc = "recv"
    /\ IF rx_lagged
       THEN \* recv() returns Err(Lagged(n)): the loop ends and the task returns
            /\ provider_pc' = "stopped"
            /\ rx_lagged' = FALSE
            /\ rx_queue' = <<>>
            /\ UNCHANGED <<lookahead, head_slot, head_event, next_relay, fetches,
                           fetch_epoch>>
       ELSE /\ rx_queue /= <<>>
            /\ rx_queue' = Tail(rx_queue)
            /\ head_event' = {[slot |-> Head(rx_queue),
                                again |-> \E e \in head_event : e.slot = Head(rx_queue)]}
            /\ on_new_head_event(Head(rx_queue))
            /\ UNCHANGED rx_lagged
    /\ outcome' = NoOutcome
    /\ UNCHANGED <<config, duties_calls, beacon, sse, rx_other, curr_lookahead_epoch, provider_manager, tasks, traffic>>

\* fetch_preconfer_lookahead after join_all: the loop applies the relays'
\* results in the order of `relays`, then sets curr_lookahead_epoch
FetchResult(result) ==
    /\ provider_pc = "fetching"
    /\ lookahead' = ApplyResult(config, lookahead, result)
    /\ IF next_relay < Len(Relays)
       THEN /\ next_relay' = next_relay + 1
            /\ UNCHANGED <<curr_lookahead_epoch, provider_pc, fetch_epoch>>
       ELSE /\ next_relay' = 0
            /\ curr_lookahead_epoch' = fetch_epoch
            /\ fetch_epoch' = 0
            /\ provider_pc' = "recv"
    /\ outcome' = NoOutcome
    /\ UNCHANGED <<config, duties_calls, beacon, sse, rx_other, head_slot, provider_manager, tasks, rx_queue, rx_lagged,
                   head_event, fetches, traffic>>

----------------------------------------------------------------------------
(* HTTP forward handler *)

\* the request of the tests' batch_requests: body and headers
DummyRequest ==
    [body |-> <<"dummy plain body">>, headers |-> <<"Content-Type: application/json">>]

\* requests the clients send under SpecForward
Requests == { DummyRequest, [body |-> <<>>, headers |-> <<>>] }

\* what the upstream does with the forwarded POST: send() fails, the body
\* cannot be read, or a status and a body arrive
Upstreams ==
    { [transport |-> "error", status |-> 0, body |-> <<>>],
      [transport |-> "body_error", status |-> 200, body |-> <<>>],
      [transport |-> "ok", status |-> 200, body |-> <<"upstream body">>],
      [transport |-> "ok", status |-> 404, body |-> <<"not found">>] }

\* the upstreams of Spec and SpecLag: unreachable, or answering 200
PlainUpstreams == { up \in Upstreams : up.transport /= "body_error" /\ up.status /= 404 }

\* client.post(to_addr).body(bytes).headers(headers)
Post(to_addr, req) == [url |-> to_addr, body |-> req.body, headers |-> req.headers]

\* The handler's answer with what it did on the way: the request it was
\* given, whether it read the table, the POSTs it issued in order, the
\* upstream replies it awaited, whether it panicked instead of answering.
Response(chain_id, req, status, body, read_table, outbound, upstream, panicked) ==
    [op |-> "http", chain_id |-> chain_id, request |-> req, status |-> status,
     body |-> body, read_table |-> read_table, outbound |-> outbound,
     upstream |-> upstream, panicked |-> panicked]

\* mutant: the chain id is not looked up, the one manager serves every request
scan_id_forward_request_any_chain(chain_id, req, url_result, up) ==
    CASE url_result.tag = "Ok" ->
            IF up.transport = "ok"
            THEN Response(chain_id, req, 200, up.body, TRUE,
                          <<Post(url_result.url, req)>>, {up}, FALSE)
            ELSE Response(chain_id, req, 500, <<"error while forwarding request">>, TRUE,
                          <<Post(url_result.url, req)>>, {up}, FALSE)
      [] url_result.tag = "Err" ->
            Response(chain_id, req, 500, url_result.msg, TRUE, <<>>, {}, FALSE)
      [] OTHER ->
            Response(chain_id, req, 0, url_result.msg, TRUE, <<>>, {}, TRUE)

\* mutant: the body and the headers are not passed on
scan_id_forward_request_bare_post(chain_id, req, url_result, up) ==
    IF chain_id \in ManagerChains
    THEN CASE url_result.tag = "Ok" ->
                IF up.transport = "ok"
                THEN Response(chain_id, req, 200, up.body, TRUE,
                              <<Post(url_result.url, [body |-> <<>>, headers |-> <<>>])>>,
                              {up}, FALSE)
                ELSE Response(chain_id, req, 500, <<"error while forwarding request">>,
                              TRUE,
                              <<Post(url_result.url, [body |-> <<>>, headers |-> <<>>])>>,
                              {up}, FALSE)
           [] url_result.tag = "Err" ->
                Response(chain_id, req, 500, url_result.msg, TRUE, <<>>, {}, FALSE)
           [] OTHER ->
                Response(chain_id, req, 0, url_result.msg, TRUE, <<>>, {}, TRUE)
    ELSE Response(chain_id, req, 400,
                  <<"no lookahead provider found for chain-id ", ToString(chain_id)>>,
                  FALSE, <<>>, {}, FALSE)

\* mutant: the upstream's status is passed on
scan_id_forward_request_upstream_status(chain_id, req, url_result, up) ==
    IF chain_id \in ManagerChains
    THEN CASE url_result.tag = "Ok" ->
                IF up.transport = "ok"
                THEN Response(chain_id, req, up.status, up.body, TRUE,
                              <<Post(url_result.url, req)>>, {up}, FALSE)
                ELSE Response(chain_id, req, 500, <<"error while forwarding request">>,
                              TRUE, <<Post(url_result.url, req)>>, {up}, FALSE)
           [] url_result.tag = "Err" ->
                Response(chain_id, req, 500, url_result.msg, TRUE, <<>>, {}, FALSE)
           [] OTHER ->
                Response(chain_id, req, 0, url_result.msg, TRUE, <<>>, {}, TRUE)
    ELSE Response(chain_id, req, 400,
                  <<"no lookahead provider found for chain-id ", ToString(chain_id)>>,
                  FALSE, <<>>, {}, FALSE)

\* mutant: a failed POST is sent once more
scan_id_forward_request_retry(chain_id, req, url_result, up) ==
    IF chain_id \in ManagerChains
    THEN CASE url_result.tag = "Ok" ->
                IF up.transport = "ok"
                THEN Response(chain_id, req, 200, up.body, TRUE,
                              <<Post(url_result.url, req)>>, {up}, FALSE)
                ELSE Response(chain_id, req, 500, <<"error while forwarding request">>,
                              TRUE, <<Post(url_result.url, req), Post(url_result.url, req)>>,
                              {up}, FALSE)
           [] url_result.tag = "Err" ->
                Response(chain_id, req, 500, url_result.msg, TRUE, <<>>, {}, FALSE)
           [] OTHER ->
                Response(chain_id, req, 0, url_result.msg, TRUE, <<>>, {}, TRUE)
    ELSE Response(chain_id, req, 400,
                  <<"no lookahead provider found for chain-id ", ToString(chain_id)>>,
                  FALSE, <<>>, {}, FALSE)

\* scan_id_forward_request with inner_forward_request: one POST to the
\* resolved URL; `?` on send() and on bytes() turns either failure into the
\* handler's 500
scan_id_forward_request(chain_id, req, url_result, up) ==
    IF chain_id \in ManagerChains
    THEN CASE url_result.tag = "Ok" ->
                IF up.transport = "ok"
                THEN Response(chain_id, req, 200, up.body, TRUE,
                              <<Post(url_result.url, req)>>, {up}, FALSE)
                ELSE Response(chain_id, req, 500, <<"error while forwarding request">>,
                              TRUE, <<Post(url_result.url, req)>>, {up}, FALSE)
           [] url_result.tag = "Err" ->
                Response(chain_id, req, 500, url_result.msg, TRUE, <<>>, {}, FALSE)
           [] OTHER ->
                Response(chain_id, req, 0, url_result.msg, TRUE, <<>>, {}, TRUE)
    ELSE Response(chain_id, req, 400,
                  <<"no lookahead provider found for chain-id ", ToString(chain_id)>>,
                  FALSE, <<>>, {}, FALSE)

HttpRequest(chain_id, req, up) ==
    /\ \E url_result \in get_url(config, lookahead) :
            outcome' = scan_id_forward_request(chain_id, req, url_result, up)
    /\ UNCHANGED <<config, duties_calls, beacon, sse, rx_other, lookahead, head_slot, curr_lookahead_epoch, provider_manager,
                   tasks, provider_pc, rx_queue, rx_lagged, head_event, next_relay,
                   fetches, fetch_epoch, traffic>>

NoTraffic == [resolved |-> 0, sent |-> 0, failed |-> 0, received |-> 0]

\* the POSTs of `outbound` that reach an upstream answering with `up`
Received(outbound, up) == IF up.transport = "error" THEN 0 ELSE Len(outbound)

\* One request of the tests' batch_requests through the gateway to an
\* upstream that counts what it handles (handle_request): the handler's step
\* with the counters of both ends.
BatchRequest(chain_id, req, up) ==
    /\ \E url_result \in get_url(config, lookahead) :
          /\ outcome' = scan_id_forward_request(chain_id, req, url_result, up)
          /\ traffic' =
                [resolved |-> traffic.resolved +
                     (IF chain_id \in ManagerChains /\ url_result.tag = "Ok" THEN 1 ELSE 0),
                 sent     |-> traffic.sent + Len(outcome'.outbound),
                 failed   |-> traffic.failed + Len(outcome'.outbound)
                                             - Received(outcome'.outbound, up),
                 received |-> traffic.received + Received(outcome'.outbound, up)]
    /\ UNCHANGED <<config, duties_calls, beacon, sse, rx_other, lookahead, head_slot, curr_lookahead_epoch, provider_manager,
                   tasks, provider_pc, rx_queue, rx_lagged, head_event, next_relay,
                   fetches, fetch_epoch>>

\* mutant: a request without chain id goes to the upstream of the first chain
forward_request_to_first_chain(req) ==
    [op |-> "forward_request", request |-> req, status |-> 200,
     body |-> <<"upstream body">>, read_table |-> TRUE,
     outbound |-> <<Post("http://preconfer1:8000/", req)>>, upstream |-> {},
     panicked |-> FALSE]

\* the handler of POST /, with what it did on the way as in Response
forward_request(req) ==
    [op |-> "forward_request", request |-> req, status |-> 400,
     body |-> <<"missing chain-id parameter">>, read_table |-> FALSE,
     outbound |-> <<>>, upstream |-> {}, panicked |-> FALSE]

\* one POST / through the gateway of the forwarding tests
PostRoot(req) ==
    /\ outcome' = forward_request(req)
    /\ traffic' = [traffic EXCEPT !.sent = @ + Len(outcome'.outbound)]
    /\ UNCHANGED <<config, duties_calls, beacon, sse, rx_other, lookahead, head_slot,
                   curr_lookahead_epoch, provider_manager, tasks, provider_pc, rx_queue,
                   rx_lagged, head_event, next_relay, fetches, fetch_epoch>>

----------------------------------------------------------------------------
(* Specifications *)

\* the construction of lookahead_managers_from_config: an empty preconfer registry
ProductionConfigs == {c \in Configs : c.preconfer_registry = EmptyMap}

\* the beacon-nodes of the configuration
BeaconNodes == <<"node1", "node2">>

\* MultiBeaconClient::new over n beacon clients, which get the ids 0..n-1
MultiBeaconClient_new(n) == [clients |-> n, best_beacon_instance |-> 0]

\* no SSE task spawned, no head produced by the chain
NoSse == [heads |-> <<>>, task |-> <<>>]

\* a manager and a provider just constructed over one of `tables`, a
\* MultiBeaconClient over one of `client_counts` clients, and the receivers
\* `receivers` subscribed to the head channel next to the provider's
\* the tasks that call get_proposer_duties on the shared client
DutiesCallers == {"caller1", "caller2"}

NoCalls == [caller \in DutiesCallers |-> {}]

InitSystem(configs, tables, client_counts, receivers) ==
    /\ config \in configs
    /\ beacon \in {MultiBeaconClient_new(n) : n \in client_counts}
    /\ duties_calls = NoCalls
    /\ sse = NoSse
    /\ rx_other = receivers
    /\ lookahead \in tables
    /\ head_slot = 0
    /\ curr_lookahead_epoch = 0
    /\ provider_manager = "Initialized"
    /\ tasks = 0
    /\ provider_pc = "unspawned"
    /\ rx_queue = <<>>
    /\ rx_lagged = FALSE
    /\ head_event = {}
    /\ next_relay = 0
    /\ fetches = EmptyMap
    /\ fetch_epoch = 0
    /\ traffic = NoTraffic
    /\ outcome = NoOutcome

\* a manager and a provider just constructed over one of `tables`
InitOn(configs, tables) == InitSystem(configs, tables, {Len(BeaconNodes)}, <<>>)

InitWith(configs) == InitOn(configs, {Multi(EmptyMap)})

Init == InitWith(Configs)

Next ==
    \/ RunProvider
    \/ \E slot \in HeadSlots : Len(rx_queue) < MaxQueued /\ SendHead(slot)
    \/ ProviderRecv
    \/ \E result \in RelayAnswers : FetchResult(result)
    \/ \E chain_id \in RequestChains, up \in PlainUpstreams :
            HttpRequest(chain_id, DummyRequest, up)

Spec == Init /\ [][Next]_vars

\* The beacon nodes report heads in non-decreasing order, as fast as they like:
\* the channel may fill up while the provider is busy.
NextLag ==
    \/ RunProvider
    \/ \E slot \in LagSlots :
            /\ IF rx_queue = <<>> THEN TRUE ELSE slot >= rx_queue[Len(rx_queue)]
            /\ SendHead(slot)
    \/ ProviderRecv
    \/ \E result \in RelayAnswers : FetchResult(result)
    \/ \E chain_id \in RequestChains, up \in PlainUpstreams :
            HttpRequest(chain_id, DummyRequest, up)

InitLag == InitWith(ProductionConfigs)

SpecLag == InitLag /\ [][NextLag]_vars

(* A relay outage: the fetch for epoch 1 is answered as the relays like,   *)
(* from the fetch for epoch 2 on every relay fails or has no election.     *)

OutageSlots == {6, 36, 37}

\* the answers without an election: an error, none, an empty list
NoElections == { r \in RelayAnswers : r.elections = <<>> }

InitOutage == InitWith(ProductionConfigs)

NextOutage ==
    \/ RunProvider
    \/ \E slot \in OutageSlots : Len(rx_queue) < MaxQueued /\ SendHead(slot)
    \/ ProviderRecv
    \/ \E result \in RelayAnswers :
            /\ fetch_epoch > 1 => result \in NoElections
            /\ FetchResult(result)

SpecOutage == InitOutage /\ [][NextOutage]_vars

(* The Lookahead type on its own: one operation applied to a table drawn   *)
(* from the values the type can hold, of either variant.                   *)

\* keys and pruning slots of the drawn tables
TableSlots == {5, 7}

ClearSlots == {0, 5, 6, 7, 41}

TableEntries == { LookaheadEntry("", election) : election \in Elections }

Tables ==
    { Multi(m) : m \in UNION { [keys -> TableEntries] : keys \in SUBSET TableSlots } }
        \cup { Single(s) : s \in {{}} \cup { {entry} : entry \in TableEntries } }

InitTable == InitOn(Configs, Tables)

TableUnchanged ==
    UNCHANGED <<config, duties_calls, beacon, sse, rx_other, head_slot, curr_lookahead_epoch, provider_manager, tasks,
                provider_pc, rx_queue, rx_lagged, head_event, next_relay, fetches,
                fetch_epoch, traffic>>

TableClear(slot) ==
    /\ outcome = NoOutcome
    /\ lookahead' = clear_slots(lookahead, slot)
    /\ outcome' = [op |-> "clear_slots", before |-> lookahead, head_slot |-> slot]
    /\ TableUnchanged

TableInsert(election_slot, entry) ==
    /\ outcome = NoOutcome
    /\ lookahead' = insert(lookahead, election_slot, entry)
    /\ outcome' = [op |-> "insert", before |-> lookahead,
                   election_slot |-> election_slot, entry |-> entry]
    /\ TableUnchanged

\* fetch_preconfer_lookahead's writes for the results of all relays
TableFetch(results) ==
    /\ outcome = NoOutcome
    /\ lookahead' = ApplyResults(config, lookahead, results)
    /\ outcome' = [op |-> "fetch", before |-> lookahead, results |-> results]
    /\ TableUnchanged

NextTable ==
    \/ \E slot \in ClearSlots : TableClear(slot)
    \/ \E election_slot \in TableSlots, entry \in TableEntries :
            TableInsert(election_slot, entry)

SpecTable == InitTable /\ [][NextTable]_vars

(* One fetch on its own: the relays' answers are drawn and written to a    *)
(* table as the program builds it (Lookahead::Multi).                      *)

FetchTables ==
    { Multi(EmptyMap),
      Multi([k \in {7} |->
                LookaheadEntry("", [slot_number |-> 7, preconfer_pubkey |-> "0x0000"])]),
      Multi([k \in {5, 41} |->
                LookaheadEntry("", [slot_number |-> k, preconfer_pubkey |-> "0x4242"])]) }

InitFetch == InitOn(Configs, FetchTables)

NextFetch == \E results \in [1..Len(Relays) -> RelayAnswers] : TableFetch(results)

SpecFetch == InitFetch /\ [][NextFetch]_vars

(* One fetch with the relays answering in any order: a request per relay   *)
(* is spawned in the order of `relays`, the answers complete in any order,  *)
(* join_all hands them back in the order of the handles.                    *)

\* the orders in which the spawned requests can complete
Completions ==
    { order \in [1..Len(Relays) -> 1..Len(Relays)] :
        \A i, j \in 1..Len(Relays) : order[i] = order[j] => i = j }

\* the answers as they complete: (index of the handle, its output)
Completed(results, order) ==
    [i \in 1..Len(order) |-> [handle |-> order[i], output |-> results[order[i]]]]

\* mutant: the outputs are handed back as they complete
join_all_as_completed(completed) ==
    [i \in 1..Len(completed) |-> completed[i].output]

\* futures::future::join_all: the outputs in the order of the handles
join_all(completed) ==
    [h \in 1..Len(completed) |->
        (CHOOSE c \in { completed[i] : i \in 1..Len(completed) } : c.handle = h).output]

JoinFetch(results, order) ==
    /\ outcome = NoOutcome
    /\ lookahead' = ApplyResults(config, lookahead, join_all(Completed(results, order)))
    /\ outcome' = [op |-> "join_fetch", before |-> lookahead, results |-> results,
                   order |-> order]
    /\ TableUnchanged

InitJoin == InitOn(ProductionConfigs, FetchTables)

NextJoin ==
    \E results \in [1..Len(Relays) -> RelayAnswers], order \in Completions :
        JoinFetch(results, order)

SpecJoin == InitJoin /\ [][NextJoin]_vars

(* MultiBeaconClient::best_sync_status on its own: the clients' answers    *)
(* are drawn, the call returns.                                            *)

\* most beacon clients of one MultiBeaconClient
MaxClients == 3

SyncStatuses ==
    { [head_slot |-> h, sync_distance |-> d, is_syncing |-> FALSE]
        : h \in {5, 9}, d \in {0, 1} }

NoStatus == [head_slot |-> 0, sync_distance |-> 0, is_syncing |-> FALSE]

\* what awaiting one client's spawned sync_status() gives: the status, the
\* client's error, or the task's JoinError
SyncResults ==
    { [tag |-> "Ok", status |-> st] : st \in SyncStatuses }
        \cup { [tag |-> "Err", status |-> NoStatus], [tag |-> "JoinErr", status |-> NoStatus] }

\* The client ids in the order the calls take them: the configured order
\* 0..n-1 with the client of id `index` swapped to the front.
beacon_clients_by_last_response(n, index) ==
    [j \in 1..n |->
        IF index /= 0 /\ j = 1 THEN index
        ELSE IF index /= 0 /\ j = index + 1 THEN 0
        ELSE j - 1]

\* mutant: a later status with the same head_slot replaces the best
RECURSIVE BestOf_last(_, _)
BestOf_last(results, best) ==
    IF results = <<>> THEN best
    ELSE BestOf_last(Tail(results),
            IF /\ Head(results).tag = "Ok"
               /\ \A current_best \in best :
                        current_best.head_slot <= Head(results).status.head_slot
            THEN {Head(results).status}
            ELSE best)

\* the loop over join_all's results; best is the Option best_sync_status
RECURSIVE BestOf(_, _)
BestOf(results, best) ==
    IF results = <<>> THEN best
    ELSE BestOf(Tail(results),
            IF /\ Head(results).tag = "Ok"
               /\ \A current_best \in best :
                        current_best.head_slot < Head(results).status.head_slot
            THEN {Head(results).status}
            ELSE best)

BeaconNodeUnavailable == <<"beacon node unavailable">>

\* best_sync_status on the results in the order of `clients`
best_sync_status(results) ==
    IF BestOf(results, {}) = {}
    THEN [tag |-> "Err", status |-> NoStatus, msg |-> BeaconNodeUnavailable]
    ELSE [tag |-> "Ok", status |-> CHOOSE st \in BestOf(results, {}) : TRUE, msg |-> <<>>]

\* a call of best_sync_status on a client with n beacon clients, the one
\* with id `index` being best_beacon_instance, client i answering answers[i]
BestSyncStatus(n, index, answers) ==
    /\ outcome' =
            LET clients == beacon_clients_by_last_response(n, index)
                results == [j \in 1..n |-> answers[clients[j]]]
            IN  [op |-> "best_sync_status", clients |-> clients, results |-> results,
                 returned |-> best_sync_status(results)]
    /\ UNCHANGED <<config, duties_calls, beacon, sse, rx_other, lookahead, head_slot, curr_lookahead_epoch, provider_manager,
                   tasks, provider_pc, rx_queue, rx_lagged, head_event, next_relay,
                   fetches, fetch_epoch, traffic>>

\* what one client's get_proposer_duties(epoch) gives: the dependent root
\* with the duties, or the client's error
DutyResults ==
    { [tag |-> "Ok", value |-> <<d>>] : d \in {"duties a", "duties b"} }
        \cup { [tag |-> "Err", value |-> <<e>>] : e \in {"timeout", "bad status"} }

\* mutant: the position in the ordered list is stored, not the client's id
RECURSIVE get_proposer_duties_stores_position(_, _, _, _)
get_proposer_duties_stores_position(clients, results, j, last_error) ==
    IF j > Len(clients)
    THEN [returned |-> IF last_error = {}
                       THEN [tag |-> "Err", value |-> BeaconNodeUnavailable]
                       ELSE CHOOSE err \in last_error : TRUE,
          queried |-> clients, stored |-> {}]
    ELSE IF results[j].tag = "Ok"
    THEN [returned |-> results[j], queried |-> SubSeq(clients, 1, j), stored |-> {j - 1}]
    ELSE get_proposer_duties_stores_position(clients, results, j + 1, {results[j]})

\* mutant: the first error is kept, not the last
RECURSIVE get_proposer_duties_first_error(_, _, _, _)
get_proposer_duties_first_error(clients, results, j, last_error) ==
    IF j > Len(clients)
    THEN [returned |-> IF last_error = {}
                       THEN [tag |-> "Err", value |-> BeaconNodeUnavailable]
                       ELSE CHOOSE err \in last_error : TRUE,
          queried |-> clients, stored |-> {}]
    ELSE IF results[j].tag = "Ok"
    THEN [returned |-> results[j], queried |-> SubSeq(clients, 1, j),
          stored |-> {clients[j]}]
    ELSE get_proposer_duties_first_error(clients, results, j + 1,
            IF last_error = {} THEN {results[j]} ELSE last_error)

\* the loop of get_proposer_duties from the j-th client of `clients` on,
\* results[j] being what that client answers when asked; last_error is the
\* Option last_error, stored the index the call stores (none: no store)
RECURSIVE get_proposer_duties(_, _, _, _)
get_proposer_duties(clients, results, j, last_error) ==
    IF j > Len(clients)
    THEN [returned |-> IF last_error = {}
                       THEN [tag |-> "Err", value |-> BeaconNodeUnavailable]
                       ELSE CHOOSE err \in last_error : TRUE,
          queried |-> clients, stored |-> {}]
    ELSE IF results[j].tag = "Ok"
    THEN [returned |-> results[j], queried |-> SubSeq(clients, 1, j),
          stored |-> {clients[j]}]
    ELSE get_proposer_duties(clients, results, j + 1, {results[j]})

\* a call of get_proposer_duties, client i answering answers[i] when asked
GetProposerDuties(answers) ==
    LET clients == beacon_clients_by_last_response(beacon.clients,
                                                   beacon.best_beacon_instance)
        results == [j \in 1..beacon.clients |-> answers[clients[j]]]
        call == get_proposer_duties(clients, results, 1, {})
    IN  /\ beacon' = IF call.stored = {} THEN beacon
                     ELSE [beacon EXCEPT !.best_beacon_instance =
                                            CHOOSE i \in call.stored : TRUE]
        /\ outcome' = [op |-> "get_proposer_duties", results |-> results,
                       queried |-> call.queried, returned |-> call.returned]
        /\ UNCHANGED <<config, duties_calls, sse, rx_other, lookahead, head_slot, curr_lookahead_epoch,
                       provider_manager, tasks, provider_pc, rx_queue, rx_lagged,
                       head_event, next_relay, fetches, fetch_epoch, traffic>>

\* a call of beacon_clients_by_last_response on the client
BeaconClientsByLastResponse ==
    /\ outcome' = [op |-> "beacon_clients_by_last_response",
                   clients |-> beacon_clients_by_last_response(beacon.clients,
                                    beacon.best_beacon_instance)]
    /\ UNCHANGED <<config, duties_calls, beacon, sse, rx_other, lookahead, head_slot,
                   curr_lookahead_epoch, provider_manager, tasks, provider_pc, rx_queue,
                   rx_lagged, head_event, next_relay, fetches, fetch_epoch, traffic>>

\* a MultiBeaconClient over 0..MaxClients clients
InitBeacon == InitSystem(ProductionConfigs, {Multi(EmptyMap)}, 0..MaxClients, <<>>)

\* the calls on the client, one after the other
NextBeacon ==
    \/ \E answers \in [0..(beacon.clients - 1) -> SyncResults] :
            BestSyncStatus(beacon.clients, beacon.best_beacon_instance, answers)
    \/ \E answers \in [0..(beacon.clients - 1) -> DutyResults] :
            GetProposerDuties(answers)
    \/ BeaconClientsByLastResponse

SpecBeacon == InitBeacon /\ [][NextBeacon]_vars

(* get_proposer_duties called by several tasks at once on the shared       *)
(* client: a call is suspended at each client.get_proposer_duties(epoch)   *)
(* .await, and the other calls run in between.                             *)

\* mutant: the position in the ordered list (from 1) is stored
StoredInstance_position(clients, j) == j

\* the `i` of `for (i, client) in clients` at the j-th turn of the loop
StoredInstance(clients, j) == clients[j]

DutiesUnchanged ==
    UNCHANGED <<config, sse, rx_other, lookahead, head_slot, curr_lookahead_epoch,
                provider_manager, tasks, provider_pc, rx_queue, rx_lagged, head_event,
                next_relay, fetches, fetch_epoch, traffic>>

\* the call starts: the ordered list is built from one load of
\* best_beacon_instance, last_error is None
DutiesStart(caller) ==
    /\ duties_calls[caller] = {}
    /\ duties_calls' = [duties_calls EXCEPT ![caller] =
            {[clients |-> beacon_clients_by_last_response(beacon.clients,
                                                          beacon.best_beacon_instance),
              j |-> 1, last_error |-> {}]}]
    /\ outcome' = [op |-> "duties_start", caller |-> caller]
    /\ UNCHANGED beacon
    /\ DutiesUnchanged

\* the client of the j-th turn answers: Ok stores its id and returns, Err is
\* kept as last_error and the loop goes on
DutiesAnswer(caller, result) ==
    \E call \in duties_calls[caller] :
        /\ call.j <= Len(call.clients)
        /\ IF result.tag = "Ok"
           THEN /\ beacon' = [beacon EXCEPT !.best_beacon_instance =
                                                StoredInstance(call.clients, call.j)]
                /\ duties_calls' = [duties_calls EXCEPT ![caller] = {}]
                /\ outcome' = [op |-> "duties_return", caller |-> caller,
                               returned |-> result]
           ELSE /\ duties_calls' = [duties_calls EXCEPT ![caller] =
                        {[call EXCEPT !.j = call.j + 1, !.last_error = {result}]}]
                /\ outcome' = [op |-> "duties_error", caller |-> caller]
                /\ UNCHANGED beacon
        /\ DutiesUnchanged

\* the loop is over: Err(last_error.unwrap_or(BeaconNodeUnavailable))
DutiesExhausted(caller) ==
    \E call \in duties_calls[caller] :
        /\ call.j > Len(call.clients)
        /\ duties_calls' = [duties_calls EXCEPT ![caller] = {}]
        /\ outcome' = [op |-> "duties_return", caller |-> caller,
                       returned |-> IF call.last_error = {}
                                    THEN [tag |-> "Err", value |-> BeaconNodeUnavailable]
                                    ELSE CHOOSE err \in call.last_error : TRUE]
        /\ UNCHANGED beacon
        /\ DutiesUnchanged

InitDuties == InitSystem(ProductionConfigs, {Multi(EmptyMap)}, 0..MaxClients, <<>>)

NextDuties ==
    \/ \E caller \in DutiesCallers : DutiesStart(caller)
    \/ \E caller \in DutiesCallers, result \in DutyResults : DutiesAnswer(caller, result)
    \/ \E caller \in DutiesCallers : DutiesExhausted(caller)
    \/ BeaconClientsByLastResponse

SpecDuties == InitDuties /\ [][NextDuties]_vars

(* The SSE tasks of subscribe_to_head_events: the chain produces heads, a  *)
(* healthy beacon node reports every head on its stream, a faulty node     *)
(* sends chunks that do not parse, breaks or ends its stream; each task    *)
(* handles the items of its stream one at a time.                          *)

\* most heads the chain produces, most unhandled items of a faulty node's stream
MaxHeads == 2

MaxPending == 2

OpenItem == [kind |-> "Open", parses |-> FALSE, slot |-> 0]

\* a Message whose data is the JSON of a HeadEvent of `slot`
HeadMessage(slot) == [kind |-> "Message", parses |-> TRUE, slot |-> slot]

\* what a faulty node's stream yields: a Message whose data does not parse,
\* Open, an error, the end of the stream
FaultyItems ==
    { [kind |-> "Message", parses |-> FALSE, slot |-> 0],
      OpenItem,
      [kind |-> "Err", parses |-> FALSE, slot |-> 0],
      [kind |-> "End", parses |-> FALSE, slot |-> 0] }

\* some receiver of the head channel is alive
Subscribers == provider_pc /= "stopped" \/ rx_other /= <<>>

\* mutant: the task returns when its stream ends
subscribe_to_sse_returns_at_end(i, item) ==
    CASE item.kind = "Message" /\ item.parses ->
            [pc |-> "streaming", send |-> {item.slot}]
      [] item.kind = "End" -> [pc |-> "returned", send |-> {}]
      [] item.kind = "Err" -> [pc |-> "sleeping", send |-> {}]
      [] OTHER -> [pc |-> "streaming", send |-> {}]

\* mutant: a head is published by the task of client 0 only
subscribe_to_sse_first_client_only(i, item) ==
    CASE item.kind = "Message" /\ item.parses ->
            [pc |-> "streaming", send |-> IF i = 0 THEN {item.slot} ELSE {}]
      [] item.kind \in {"Err", "End"} -> [pc |-> "sleeping", send |-> {}]
      [] OTHER -> [pc |-> "streaming", send |-> {}]

\* one turn of `while let Some(event) = es.next().await` of the task of
\* client i: where the task is next, and the value it sends into the channel
subscribe_to_sse(i, item) ==
    CASE item.kind = "Message" /\ item.parses ->
            [pc |-> "streaming", send |-> {item.slot}]
      [] item.kind \in {"Err", "End"} -> [pc |-> "sleeping", send |-> {}]
      [] OTHER -> [pc |-> "streaming", send |-> {}]

\* subscribe_to_head_events: one task per client, each on a new EventSource;
\* the clients of `healthy` talk to a healthy node, whose stream opens
SubscribeToHeadEvents(healthy) ==
    /\ sse.task = <<>>
    /\ sse' = [sse EXCEPT !.task =
                [j \in 1..beacon.clients |->
                    [healthy |-> (j - 1) \in healthy, pc |-> "streaming",
                     stream |-> IF (j - 1) \in healthy THEN <<OpenItem>> ELSE <<>>]]]
    /\ outcome' = NoOutcome
    /\ UNCHANGED <<config, duties_calls, beacon, rx_other, lookahead, head_slot, curr_lookahead_epoch,
                   provider_manager, tasks, provider_pc, rx_queue, rx_lagged, head_event,
                   next_relay, fetches, fetch_epoch, traffic>>

\* the chain produces its next head: every healthy node reports it
ChainHead ==
    /\ sse.task /= <<>>
    /\ Len(sse.heads) < MaxHeads
    /\ sse' = [heads |-> Append(sse.heads, Len(sse.heads) + 1),
               task |-> [j \in DOMAIN sse.task |->
                    IF sse.task[j].healthy
                    THEN [sse.task[j] EXCEPT
                            !.stream = Append(@, HeadMessage(Len(sse.heads) + 1))]
                    ELSE sse.task[j]]]
    /\ outcome' = NoOutcome
    /\ UNCHANGED <<config, duties_calls, beacon, rx_other, lookahead, head_slot, curr_lookahead_epoch,
                   provider_manager, tasks, provider_pc, rx_queue, rx_lagged, head_event,
                   next_relay, fetches, fetch_epoch, traffic>>

\* the stream of the faulty node of client i yields `item`
FaultyNode(i, item) ==
    /\ i + 1 \in DOMAIN sse.task
    /\ ~sse.task[i + 1].healthy
    /\ sse.task[i + 1].pc = "streaming"
    /\ Len(sse.task[i + 1].stream) < MaxPending
    /\ sse' = [sse EXCEPT !.task[i + 1].stream = Append(@, item)]
    /\ outcome' = NoOutcome
    /\ UNCHANGED <<config, duties_calls, beacon, rx_other, lookahead, head_slot, curr_lookahead_epoch,
                   provider_manager, tasks, provider_pc, rx_queue, rx_lagged, head_event,
                   next_relay, fetches, fetch_epoch, traffic>>

\* the task of client i handles the next item of its stream; the stream is
\* dropped with its EventSource when the task leaves the inner loop
SseNext(i) ==
    /\ i + 1 \in DOMAIN sse.task
    /\ sse.task[i + 1].pc = "streaming"
    /\ sse.task[i + 1].stream /= <<>>
    /\ LET item == Head(sse.task[i + 1].stream)
           turn == subscribe_to_sse(i, item)
       IN  /\ sse' = [sse EXCEPT !.task[i + 1] =
                        [@ EXCEPT !.pc = turn.pc,
                                  !.stream = IF turn.pc = "streaming"
                                             THEN Tail(@) ELSE <<>>]]
           /\ IF turn.send /= {} /\ Subscribers
              THEN Publish(CHOOSE slot \in turn.send : TRUE)
              ELSE UNCHANGED <<rx_queue, rx_lagged, rx_other>>
           /\ outcome' = [op |-> "subscribe_to_sse", client |-> i, item |-> item,
                          send |-> IF turn.send = {} THEN "none"
                                   ELSE IF Subscribers THEN "Ok" ELSE "Err"]
    /\ UNCHANGED <<config, duties_calls, beacon, lookahead, head_slot, curr_lookahead_epoch,
                   provider_manager, tasks, provider_pc, head_event, next_relay,
                   fetches, fetch_epoch, traffic>>

\* the sleep of 500 ms is over: the outer loop opens a new EventSource
SseReconnect(i) ==
    /\ i + 1 \in DOMAIN sse.task
    /\ sse.task[i + 1].pc = "sleeping"
    /\ sse' = [sse EXCEPT !.task[i + 1].pc = "streaming"]
    /\ outcome' = [op |-> "reconnect", client |-> i]
    /\ UNCHANGED <<config, duties_calls, beacon, rx_other, lookahead, head_slot, curr_lookahead_epoch,
                   provider_manager, tasks, provider_pc, rx_queue, rx_lagged, head_event,
                   next_relay, fetches, fetch_epoch, traffic>>

\* the provider's run has returned and its receiver is dropped; the heads
\* that overrun the receiver before are not enumerated here
ReceiverDropped ==
    /\ provider_pc /= "stopped"
    /\ provider_pc' = "stopped"
    /\ rx_queue' = <<>>
    /\ rx_lagged' = FALSE
    /\ outcome' = NoOutcome
    /\ UNCHANGED <<config, duties_calls, beacon, sse, rx_other, lookahead, head_slot,
                   curr_lookahead_epoch, provider_manager, tasks, head_event, next_relay,
                   fetches, fetch_epoch, traffic>>

\* the head channel with the provider's receiver alone, or with the
\* receiver of another chain's provider next to it
InitSse ==
    \/ InitSystem(ProductionConfigs, {Multi(EmptyMap)}, {Len(BeaconNodes)}, <<>>)
    \/ InitSystem(ProductionConfigs, {Multi(EmptyMap)}, {Len(BeaconNodes)},
                  <<NoReceiver>>)

NextSse ==
    \/ \E healthy \in SUBSET (0..(beacon.clients - 1)) : SubscribeToHeadEvents(healthy)
    \/ ChainHead
    \/ \E i \in 0..(beacon.clients - 1) :
            \/ \E item \in FaultyItems : FaultyNode(i, item)
            \/ SseNext(i)
            \/ SseReconnect(i)
    \/ ReceiverDropped

SpecSse == InitSse /\ [][NextSse]_vars

(* The head channel under load: the SSE tasks send heads as fast as they    *)
(* like while the provider is busy, next to the receiver of another        *)
(* chain's provider, which reads at its own pace.                          *)

\* most heads sent, and the slot of the first one
MaxSent == 18

FirstHead == 6

\* mutant: a sender of a bounded queue, which waits while the provider's
\* receiver is full
SseSend_waits_for_room(slot) ==
    /\ Len(rx_queue) < BROADCAST_CAPACITY
    /\ Publish(slot)
    /\ sse' = [sse EXCEPT !.heads = Append(@, slot)]
    /\ outcome' = [op |-> "send", slot |-> slot]
    /\ UNCHANGED <<config, duties_calls, beacon, lookahead, head_slot, curr_lookahead_epoch,
                   provider_manager, tasks, provider_pc, head_event, next_relay, fetches,
                   fetch_epoch, traffic>>

\* chan.send(data) of an SSE task on the next head of the chain, the head
\* sent being observed
SseSend(slot) ==
    /\ Publish(slot)
    /\ sse' = [sse EXCEPT !.heads = Append(@, slot)]
    /\ outcome' = [op |-> "send", slot |-> slot]
    /\ UNCHANGED <<config, duties_calls, beacon, lookahead, head_slot, curr_lookahead_epoch,
                   provider_manager, tasks, provider_pc, head_event, next_relay, fetches,
                   fetch_epoch, traffic>>

\* one recv() of the other chain's provider: it takes the oldest head it
\* retains; overrun, its loop ends as the provider's does and its receiver
\* is dropped
OtherRecv ==
    /\ rx_other /= <<>>
    /\ IF rx_other[1].lagged
       THEN rx_other' = Tail(rx_other)
       ELSE /\ rx_other[1].queue /= <<>>
            /\ rx_other' = [rx_other EXCEPT ![1].queue = Tail(@)]
    /\ outcome' = NoOutcome
    /\ UNCHANGED <<config, duties_calls, beacon, sse, lookahead, head_slot, curr_lookahead_epoch,
                   provider_manager, tasks, provider_pc, rx_queue, rx_lagged, head_event,
                   next_relay, fetches, fetch_epoch, traffic>>

InitPressure ==
    InitSystem(ProductionConfigs, {Multi(EmptyMap)}, {Len(BeaconNodes)}, <<NoReceiver>>)

\* the heads are those of consecutive slots; the relays have no election
NextPressure ==
    \/ RunProvider
    \/ Len(sse.heads) < MaxSent /\ SseSend(FirstHead + Len(sse.heads))
    \/ ProviderRecv
    \/ \E result \in { r \in RelayAnswers : r.tag /= "Some" } : FetchResult(result)
    \/ OtherRecv

SpecPressure == InitPressure /\ [][NextPressure]_vars

(* The cadence of the fetches: the beacon node reports the head of every    *)
(* slot from slot 0 on, once, and the provider keeps up.                   *)

\* number of epochs whose slots are reported
MaxEpochs == 4

InitCadence == InitWith(ProductionConfigs)

NextCadence ==
    \/ RunProvider
    \/ /\ Len(sse.heads) < MaxEpochs * EPOCH_SLOTS
       /\ Len(rx_queue) < MaxQueued
       /\ SseSend(Len(sse.heads))
    \/ ProviderRecv
    \/ \E result \in NoElections : FetchResult(result)

SpecCadence == InitCadence /\ [][NextCadence]_vars

(* RelayClient on its own: the relay's HTTP answers are drawn, the call     *)
(* returns.                                                                *)

RelayStatuses == {200, 204, 404, 500}

\* what the relay's answer to one GET can be: the request fails in
\* transport, or a response with a status and a body; body is the value the
\* body decodes to as JSON of the expected type (none: it does not decode)
HttpAnswers(values) ==
    { [sent |-> FALSE, status |-> 0, body |-> {}] }
        \cup { [sent |-> TRUE, status |-> st, body |-> b] :
                    st \in RelayStatuses, b \in {{}} \cup { {v} : v \in values } }

SlotAnswers == HttpAnswers(Elections)

LookaheadAnswers == HttpAnswers(ElectionLists)

\* the answers drawn for the slots of a whole epoch
EpochSlotAnswers ==
    { a \in SlotAnswers :
        \/ ~a.sent
        \/ a.status = 204 /\ a.body = {}
        \/ a.status = 200 /\ \A e \in a.body : e.slot_number = 7
        \/ a.status = 500 /\ \E e \in a.body : e.slot_number = 5 }

\* slots of the per-slot calls, epochs of the per-epoch calls, and the
\* offsets in the epoch of the slots whose answers are drawn one by one
RelaySlots == {0, 7, 63}

RelayEpochs == {0, 1}

DrawnOffsets == {0, 1, 31}

\* get_elected_preconfer_for_slot on the relay's answer
get_elected_preconfer_for_slot(answer) ==
    IF ~answer.sent THEN [tag |-> "Err", elections |-> <<>>]
    ELSE IF answer.status = 204 THEN [tag |-> "None", elections |-> <<>>]
    ELSE IF answer.body = {} THEN [tag |-> "Err", elections |-> <<>>]
    ELSE [tag |-> "Some", elections |-> <<CHOOSE e \in answer.body : TRUE>>]

\* get_elected_preconfer_lookahead on the relay's answer
get_elected_preconfer_lookahead(answer) ==
    IF ~answer.sent THEN [tag |-> "Err", elections |-> <<>>]
    ELSE IF answer.status = 204 THEN [tag |-> "None", elections |-> <<>>]
    ELSE IF answer.body = {} THEN [tag |-> "Err", elections |-> <<>>]
    ELSE [tag |-> "Some", elections |-> CHOOSE el \in answer.body : TRUE]

\* filter_map(|result| result.ok().flatten()).collect()
RECURSIVE FilterElections(_)
FilterElections(results) ==
    IF results = <<>> THEN <<>>
    ELSE (IF Head(results).tag = "Some" THEN Head(results).elections ELSE <<>>)
            \o FilterElections(Tail(results))

\* mutant: one failed per-slot request fails the call
get_elected_preconfers_for_epoch_fails_with_slot(enabled, epoch, answers, answer) ==
    IF enabled
    THEN [requested |-> <<>>, results |-> <<>>,
          returned |-> get_elected_preconfer_lookahead(answer)]
    ELSE LET requested == [i \in 1..EPOCH_SLOTS |-> epoch * EPOCH_SLOTS + (i - 1)]
             results == [i \in 1..EPOCH_SLOTS |->
                            get_elected_preconfer_for_slot(answers[requested[i]])]
             elections == FilterElections(results)
         IN  [requested |-> requested, results |-> results,
              returned |-> IF \E i \in 1..EPOCH_SLOTS : results[i].tag = "Err"
                           THEN [tag |-> "Err", elections |-> <<>>]
                           ELSE IF elections = <<>>
                           THEN [tag |-> "None", elections |-> <<>>]
                           ELSE [tag |-> "Some", elections |-> elections]]

\* get_elected_preconfers_for_epoch: the slots requested, the results of
\* the per-slot calls and what the call returns; answers[slot] is the
\* relay's answer to the per-slot GET, answer its answer to the lookahead GET
get_elected_preconfers_for_epoch(enabled, epoch, answers, answer) ==
    IF enabled
    THEN [requested |-> <<>>, results |-> <<>>,
          returned |-> get_elected_preconfer_lookahead(answer)]
    ELSE LET requested == [i \in 1..EPOCH_SLOTS |-> epoch * EPOCH_SLOTS + (i - 1)]
             results == [i \in 1..EPOCH_SLOTS |->
                            get_elected_preconfer_for_slot(answers[requested[i]])]
             elections == FilterElections(results)
         IN  [requested |-> requested, results |-> results,
              returned |-> IF elections = <<>>
                           THEN [tag |-> "None", elections |-> <<>>]
                           ELSE [tag |-> "Some", elections |-> elections]]

\* a call of get_elected_preconfer_for_slot
GetElectedPreconferForSlot(slot, answer) ==
    /\ outcome' = [op |-> "get_elected_preconfer_for_slot", slot |-> slot,
                   answer |-> answer,
                   returned |-> get_elected_preconfer_for_slot(answer)]
    /\ UNCHANGED <<config, duties_calls, beacon, sse, rx_other, lookahead, head_slot,
                   curr_lookahead_epoch, provider_manager, tasks, provider_pc, rx_queue,
                   rx_lagged, head_event, next_relay, fetches, fetch_epoch, traffic>>

\* a call of get_elected_preconfers_for_epoch on a relay client whose
\* get_lookahead_enabled is `enabled`
GetElectedPreconfersForEpoch(enabled, epoch, answers, answer) ==
    /\ outcome' =
            LET call == get_elected_preconfers_for_epoch(enabled, epoch, answers, answer)
            IN  [op |-> "get_elected_preconfers_for_epoch", enabled |-> enabled,
                 epoch |-> epoch, answer |-> answer, requested |-> call.requested,
                 results |-> call.results, returned |-> call.returned]
    /\ UNCHANGED <<config, duties_calls, beacon, sse, rx_other, lookahead, head_slot,
                   curr_lookahead_epoch, provider_manager, tasks, provider_pc, rx_queue,
                   rx_lagged, head_event, next_relay, fetches, fetch_epoch, traffic>>

\* the transport failure, standing for the answer of a GET that is not made
NotSent == [sent |-> FALSE, status |-> 0, body |-> {}]

InitRelay == InitWith(ProductionConfigs)

\* one call on drawn answers; the slots of the epoch outside DrawnOffsets
\* all get the answer `rest`
NextRelay ==
    \/ \E slot \in RelaySlots, answer \in SlotAnswers :
            outcome = NoOutcome /\ GetElectedPreconferForSlot(slot, answer)
    \/ \E epoch \in RelayEpochs, answer \in LookaheadAnswers :
            /\ outcome = NoOutcome
            /\ GetElectedPreconfersForEpoch(TRUE, epoch,
                    [slot \in 0..(EPOCH_SLOTS * 2 - 1) |-> NotSent], answer)
    \/ \E epoch \in RelayEpochs, rest \in EpochSlotAnswers :
            \E drawn \in [DrawnOffsets -> EpochSlotAnswers] :
                /\ outcome = NoOutcome
                /\ GetElectedPreconfersForEpoch(FALSE, epoch,
                        [slot \in 0..(EPOCH_SLOTS * 2 - 1) |->
                            IF slot % EPOCH_SLOTS \in DrawnOffsets
                            THEN drawn[slot % EPOCH_SLOTS] ELSE rest],
                        NotSent)

SpecRelay == InitRelay /\ [][NextRelay]_vars

(* Loading one [[lookahead]] table of the configuration file: the fields   *)
(* of the table are drawn, the parser returns, and a manager is built from *)
(* what it accepted.                                                       *)

RegistryUrls == {"http://registry1:9000/", "http://preconfer1:8000/"}

\* the registry maps a file can hold, the map without keys included
RegistryMaps == UNION { [keys -> RegistryUrls] : keys \in SUBSET PubKeys }

\* the fields of the table as LookaheadHelper holds them; registry is the
\* Option<HashMap>, none when the file has no registry table
LookaheadHelpers ==
    { [chain_id |-> c, relays |-> r, registry |-> g, url_provider |-> p] :
        c \in RequestChains,
        r \in {<<>>, SubSeq(Relays, 1, 1), Relays},
        g \in {{}} \cup { {m} : m \in RegistryMaps },
        p \in {"lookahead", "registry"} }

\* Lookahead::deserialize after the helper is decoded
Lookahead_deserialize(helper) ==
    IF helper.url_provider = "registry" /\ helper.registry = {}
    THEN [tag |-> "Err",
          msg |-> <<"registry map is mandatory when url-provider is set to registry">>,
          lookahead |-> {}]
    ELSE [tag |-> "Ok", msg |-> <<>>,
          lookahead |-> {[chain_id |-> helper.chain_id, relays |-> helper.relays,
                          registry |-> helper.registry,
                          provider |-> helper.url_provider]}]

\* the url_provider lookahead_managers_from_config gives the manager of an
\* accepted table
ManagerUrlProvider(parsed) ==
    IF parsed.provider = "lookahead"
    THEN [url_provider |-> "LookaheadEntry", url_map |-> EmptyMap]
    ELSE [url_provider |-> "UrlMap", url_map |-> CHOOSE m \in parsed.registry : TRUE]

\* the configuration is loaded and the managers are built
LoadConfig(helper) ==
    /\ outcome' =
            LET returned == Lookahead_deserialize(helper)
            IN  [op |-> "Lookahead::deserialize", helper |-> helper,
                 returned |-> returned,
                 manager |-> { ManagerUrlProvider(parsed) : parsed \in returned.lookahead }]
    /\ UNCHANGED <<config, duties_calls, beacon, sse, rx_other, lookahead, head_slot,
                   curr_lookahead_epoch, provider_manager, tasks, provider_pc, rx_queue,
                   rx_lagged, head_event, next_relay, fetches, fetch_epoch, traffic>>

InitConfig == InitWith(ProductionConfigs)

NextConfig == \E helper \in LookaheadHelpers : outcome = NoOutcome /\ LoadConfig(helper)

SpecConfig == InitConfig /\ [][NextConfig]_vars

(* The set-up of the forwarding tests: a manager over a table seeded with  *)
(* one entry under key 0 (or the Default manager's empty table), the       *)
(* provider LookaheadProvider::None, requests sent by batch_requests.      *)

ForwardConfigs ==
    { [url_provider |-> "LookaheadEntry", url_map |-> EmptyMap,
       preconfer_registry |-> EmptyMap, provider |-> "None"],
      [url_provider |-> "UrlMap",
       url_map |-> [k \in {"0x4242"} |-> Url_from_str("http://registry1:9000").url],
       preconfer_registry |-> EmptyMap, provider |-> "None"] }

SeededTables ==
    { Multi(EmptyMap),
      Multi([k \in {0, 7} |->
                IF k = 0
                THEN LookaheadEntry("http://preconfer1:8000",
                                    [slot_number |-> 0, preconfer_pubkey |-> "0x4242"])
                ELSE LookaheadEntry("http://registry1:9000",
                                    [slot_number |-> 7, preconfer_pubkey |-> "0x0000"])]) }
    \cup
    { Multi([k \in {0} |->
                LookaheadEntry(url, [slot_number |-> 0, preconfer_pubkey |-> pub_key])])
        : url \in {"http://preconfer1:8000", ""}, pub_key \in PubKeys }

InitForward == InitOn(ForwardConfigs, SeededTables)

NextForward ==
    \/ RunProvider
    \/ \E chain_id \in RequestChains, req \in Requests, up \in Upstreams :
            traffic.resolved < MaxRequests /\ BatchRequest(chain_id, req, up)
    \/ \E req \in Requests : PostRoot(req)

SpecForward == InitForward /\ [][NextForward]_vars

(* Both kinds of provider next to each other: a manager built from the     *)
(* configuration with its relay provider, or a manager of the tests with   *)
(* LookaheadProvider::None over a seeded table; heads are sent into the    *)
(* channel in either case.                                                 *)

InitModes == InitWith(ProductionConfigs) \/ InitOn(ForwardConfigs, SeededTables)

NextModes ==
    \/ RunProvider
    \/ \E slot \in LagSlots : Len(rx_queue) < MaxQueued /\ SendHead(slot)
    \/ ProviderRecv
    \/ \E result \in RelayAnswers : FetchResult(result)
    \/ \E chain_id \in RequestChains, up \in PlainUpstreams :
            HttpRequest(chain_id, DummyRequest, up)

SpecModes == InitModes /\ [][NextModes]_vars

(* The running system with relays that answer with at most one election:   *)
(* heads, fetches and requests in any order.                               *)

SingleAnswers == { r \in RelayAnswers : Len(r.elections) <= 1 }

InitServe == InitWith(Configs)

NextServe ==
    \/ RunProvider
    \/ \E slot \in HeadSlots : Len(rx_queue) < MaxQueued /\ SendHead(slot)
    \/ ProviderRecv
    \/ \E result \in SingleAnswers : FetchResult(result)
    \/ \E up \in PlainUpstreams : HttpRequest(1, DummyRequest, up)

SpecServe == InitServe /\ [][NextServe]_vars

----------------------------------------------------------------------------
(* Properties *)

Keys == DOMAIN lookahead.map

MinKey == CHOOSE k \in Keys : \A j \in Keys : k <= j

\* the step is the provider taking the head event at the front of the channel
TakesEvent ==
    /\ provider_pc = "recv"
    /\ ~rx_lagged
    /\ rx_queue /= <<>>
    /\ rx_queue' = Tail(rx_queue)

\* C1: once the provider is back at recv() after a head event with slot h
\* (pruning and the fetch it triggered done), no key of the table is < h.
C1_NoEntryBelowProcessedHead ==
    provider_pc = "recv" => \A e \in head_event : \A k \in Keys : k >= e.slot

\* C2: a provider whose receiver holds a lag notification keeps running: its
\* task does not end.
C2_ContinuesAfterLag ==
    [][rx_lagged => provider_pc' /= "stopped"]_vars

\* C3: get_next_elected_preconfer returns nothing on the empty table and
\* otherwise exactly the entry stored under the minimum key.
C3_NextIsMinKey ==
    IF Keys = {}
    THEN get_next_elected_preconfer(lookahead) = {}
    ELSE get_next_elected_preconfer(lookahead) = {lookahead.map[MinKey]}

\* a table with several entries, read by the handler
C3_Witness ==
    /\ Cardinality(Keys) >= 2
    /\ outcome.op = "http"
    /\ outcome.read_table

\* C4: head_slot never decreases; it changes only when the provider takes an
\* event with a greater slot, and then to that slot; an event with
\* slot <= head_slot changes neither the context nor the table and starts no fetch.
C4_HeadSlotMonotonic ==
    [][ /\ head_slot' >= head_slot
        /\ head_slot' /= head_slot =>
              /\ TakesEvent
              /\ Head(rx_queue) > head_slot
              /\ head_slot' = Head(rx_queue)
        /\ (TakesEvent /\ Head(rx_queue) > head_slot) => head_slot' = Head(rx_queue)
        /\ (TakesEvent /\ Head(rx_queue) <= head_slot) =>
              UNCHANGED <<head_slot, curr_lookahead_epoch, lookahead, provider_pc,
                          next_relay, fetches>>
      ]_vars

\* an out-of-order event (slot 6 after head 7) was taken and dropped, with a
\* table it would have pruned or refilled
C4_Witness ==
    /\ head_slot = 7
    /\ provider_pc = "recv"
    /\ \E e \in head_event : e.slot = 6
    /\ Keys /= {}

\* C5: no head slot has more than one relay fetch issued for it, however
\* often the slot is delivered.
C5_OneFetchPerSlot ==
    \A s \in DOMAIN fetches : fetches[s] <= 1

\* slot 6 was delivered twice in a row, and fetched for once
C5_Witness ==
    /\ \E e \in head_event : e.slot = 6 /\ e.again
    /\ head_slot = 6
    /\ provider_pc = "recv"
    /\ FetchCount(6) = 1

\* C6: run_provider on an Initialized manager spawns the provider task,
\* moves to Running and returns Ok; called on a Running manager it returns
\* the 'already running' error and spawns nothing; there is never more than
\* one provider task.
C6_RunProviderOnce ==
    /\ [](tasks <= 1)
    /\ [][ (outcome'.op = "run_provider") =>
              /\ provider_manager = "Initialized" =>
                    /\ provider_manager' = "Running"
                    /\ tasks' = tasks + 1
                    /\ provider_pc' = "recv"
                    /\ outcome'.result.tag = "Ok"
              /\ provider_manager = "Running" =>
                    /\ outcome'.result = Err(AlreadyRunningMsg)
                    /\ tasks' = tasks
                    /\ provider_pc' = provider_pc
         ]_vars

\* the second call has returned its error
C6_Witness ==
    /\ outcome.op = "run_provider"
    /\ outcome.result = Err(AlreadyRunningMsg)
    /\ tasks = 1

\* C7: get_url fails with 'no lookahead provider found' exactly when the
\* table is empty; on a non-empty table it returns what the URL resolver
\* gives for the entry under the minimum key.
C7_NoLookaheadIffEmpty ==
    /\ (Err(NoLookaheadMsg) \in get_url(config, lookahead)) <=> (Keys = {})
    /\ Keys = {} => get_url(config, lookahead) = {Err(NoLookaheadMsg)}
    /\ Keys /= {} =>
            get_url(config, lookahead) = {resolve_url(config, lookahead.map[MinKey])}

\* the handler called get_url on a table whose next entry has no URL in the registry map
C7_Witness ==
    /\ Keys /= {}
    /\ config.url_provider = "UrlMap"
    /\ outcome.op = "http"
    /\ outcome.read_table
    /\ outcome.status = 500

\* C8: under the LookaheadEntry policy get_url returns the parsed entry.url
\* when it is a valid URL, and an error value when it is empty or invalid.
C8_EntryUrlOrError ==
    (config.url_provider = "LookaheadEntry" /\ Keys /= {}) =>
        \A r \in get_url(config, lookahead) :
            IF Url_from_str(lookahead.map[MinKey].url).ok
            THEN r = Ok(Url_from_str(lookahead.map[MinKey].url).url)
            ELSE r.tag = "Err"

\* C9: under the registry policy get_url returns the URL the map holds for
\* the next entry's preconfer_pubkey, whatever entry.url is, and fails with
\* an error naming the pubkey when the map has no such key.
C9_RegistryLookup ==
    (config.url_provider = "UrlMap" /\ Keys /= {}) =>
        LET pub_key == lookahead.map[MinKey].election.preconfer_pubkey
        IN  get_url(config, lookahead) =
                IF pub_key \in DOMAIN config.url_map
                THEN {Ok(config.url_map[pub_key])}
                ELSE {Err(NoKeyMsg(pub_key))}

\* a request was forwarded to the registry's URL although the entry carries
\* another, valid URL
C9_Witness ==
    /\ config.url_provider = "UrlMap"
    /\ Keys /= {}
    /\ Url_from_str(lookahead.map[MinKey].url).ok
    /\ outcome.op = "http"
    /\ Len(outcome.outbound) = 1
    /\ outcome.outbound[1].url =
            config.url_map[lookahead.map[MinKey].election.preconfer_pubkey]
    /\ outcome.outbound[1].url /= Url_from_str(lookahead.map[MinKey].url).url

\* C10: a request for a chain id that is no key of the manager map is
\* answered 400 'no lookahead provider found for chain-id <id>', with no
\* table read and no outbound request.
C10_UnknownChain ==
    (outcome.op = "http" /\ outcome.chain_id \notin ManagerChains) =>
        /\ outcome.status = 400
        /\ outcome.body = <<"no lookahead provider found for chain-id ",
                            ToString(outcome.chain_id)>>
        /\ ~outcome.read_table
        /\ outcome.outbound = <<>>
        /\ ~outcome.panicked

\* an unknown chain id was requested while the known chain had a resolvable entry
C10_Witness ==
    /\ outcome.op = "http"
    /\ outcome.chain_id = 2
    /\ Keys /= {}
    /\ \E r \in get_url(config, lookahead) : r.tag = "Ok"

\* the handler answered a request for a chain of the manager map
Handled == outcome.op = "http" /\ outcome.chain_id \in ManagerChains

\* C11: when the chain's manager exists and get_url does not produce a URL
\* (the table is empty, or the resolver cannot give a URL for the next
\* entry), the handler answers 500 with the error's message as body and
\* issues no outbound request.
C11_FailureIs500 ==
    Handled =>
        \A r \in get_url(config, lookahead) :
            r.tag /= "Ok" =>
                /\ outcome.status = 500
                /\ outcome.body = r.msg
                /\ outcome.outbound = <<>>

\* C12: every request for which get_url succeeds causes exactly one outbound
\* POST, to the resolved URL and with the request's body and headers; the
\* gateway has issued as many POSTs as requests resolved a URL, and while no
\* POST failed in transport the upstream has handled that many requests.
C12_OnePostPerRequest ==
    /\ traffic.sent = traffic.resolved
    /\ traffic.failed = 0 => traffic.received = traffic.resolved
    /\ Handled =>
            \A r \in get_url(config, lookahead) :
                r.tag = "Ok" =>
                    outcome.outbound = <<[url |-> r.url, body |-> outcome.request.body,
                                          headers |-> outcome.request.headers]>>

\* several requests with a body went through to a reachable upstream
C12_Witness ==
    /\ traffic.resolved >= 2
    /\ traffic.failed = 0
    /\ traffic.received = traffic.resolved
    /\ Handled
    /\ outcome.request.body /= <<>>
    /\ Len(outcome.outbound) = 1

\* C13: when the outbound POST completed and its body was read, the handler
\* answers 200 with the upstream's body, whatever status the upstream sent.
C13_UpstreamBodyWith200 ==
    outcome.op = "http" =>
        \A up \in outcome.upstream :
            up.transport = "ok" => (outcome.status = 200 /\ outcome.body = up.body)

\* the upstream answered 404 and the client got 200 with the 404's body
C13_Witness ==
    /\ outcome.op = "http"
    /\ \E up \in outcome.upstream : up.transport = "ok" /\ up.status = 404
    /\ outcome.status = 200
    /\ outcome.body = <<"not found">>

\* C14: when the outbound POST fails in transport, the handler answers 500
\* 'error while forwarding request', having issued that one POST to the
\* resolved URL and no other.
C14_TransportErrorIs500 ==
    outcome.op = "http" =>
        \A up \in outcome.upstream :
            up.transport = "error" =>
                /\ outcome.status = 500
                /\ outcome.body = <<"error while forwarding request">>
                /\ Len(outcome.outbound) = 1
                /\ \E r \in get_url(config, lookahead) :
                        r.tag = "Ok" /\ outcome.outbound[1].url = r.url

\* the POST failed while the table held further entries
C14_Witness ==
    /\ outcome.op = "http"
    /\ \E up \in outcome.upstream : up.transport = "error"
    /\ outcome.status = 500
    /\ Cardinality(Keys) >= 2

\* The slots a table holds entries under, with the entries: the keys of a
\* Multi table; a Single table keeps no key and holds its entry under the
\* entry's own slot.
KeyedEntries(l) ==
    IF l.kind = "Multi"
    THEN { <<k, l.map[k]>> : k \in DOMAIN l.map }
    ELSE { <<EntrySlot(entry), entry>> : entry \in l.single }

Answered(results) ==
    { <<i, n>> \in (1..Len(results)) \X (1..MaxElections) :
            results[i].tag = "Some" /\ n <= Len(results[i].elections) }

\* C19: after one fetch the chain's map holds, for every election of every
\* relay that answered with a list, an entry under that election's slot
\* written by this fetch, whatever the other relays answered; the other
\* keys keep their entries.
C19_EveryElectionWritten ==
    outcome.op = "fetch" =>
        LET results == outcome.results
            slots == { results[p[1]].elections[p[2]].slot_number : p \in Answered(results) }
        IN  /\ DOMAIN lookahead.map = DOMAIN outcome.before.map \cup slots
            /\ \A k \in DOMAIN lookahead.map \ slots :
                    lookahead.map[k] = outcome.before.map[k]
            /\ \A k \in slots :
                    \E p \in Answered(results) :
                        /\ results[p[1]].elections[p[2]].slot_number = k
                        /\ lookahead.map[k] =
                                LookaheadEntry(
                                    GetOrDefault(config.preconfer_registry,
                                        results[p[1]].elections[p[2]].preconfer_pubkey),
                                    results[p[1]].elections[p[2]])

\* the first relay failed and both elections of the second were written
C19_Witness ==
    /\ outcome.op = "fetch"
    /\ outcome.before = Multi(EmptyMap)
    /\ outcome.results[1].tag = "Err"
    /\ outcome.results[2].tag = "Some"
    /\ Len(outcome.results[2].elections) = 2
    /\ Cardinality(DOMAIN lookahead.map) = 2

C21_ProposerDuties ==
    [][outcome'.op = "get_proposer_duties" =>
        LET order == beacon_clients_by_last_response(beacon.clients,
                                                     beacon.best_beacon_instance)
            results == outcome'.results
            succeeds == { j \in 1..Len(order) : results[j].tag = "Ok" }
        IN  IF succeeds = {}
            THEN /\ outcome'.queried = order
                 /\ beacon' = beacon
                 /\ outcome'.returned =
                        IF order = <<>>
                        THEN [tag |-> "Err", value |-> <<"beacon node unavailable">>]
                        ELSE results[Len(order)]
            ELSE \E j \in succeeds :
                    /\ \A i \in succeeds : j <= i
                    /\ outcome'.queried = SubSeq(order, 1, j)
                    /\ outcome'.returned = results[j]
                    /\ beacon' = [beacon EXCEPT !.best_beacon_instance = order[j]]]_vars

\* of three clients the first fails and the second succeeds
C21_Witness ==
    /\ outcome.op = "get_proposer_duties"
    /\ beacon.clients = 3
    /\ Len(outcome.queried) = 2
    /\ outcome.results[1].tag = "Err"
    /\ outcome.returned.tag = "Ok"
    /\ beacon.best_beacon_instance = outcome.queried[2]

\* C22: the call of the ordering helper that follows a get_proposer_duties
\* which succeeded on client i returns a list that starts with client i.
C22_BestIsFirstAfterSuccess ==
    [][(/\ outcome.op = "get_proposer_duties"
        /\ outcome.returned.tag = "Ok"
        /\ outcome'.op = "beacon_clients_by_last_response")
            => outcome'.clients[1] = outcome.queried[Len(outcome.queried)]]_vars

\* the helper called when client 2 is the best of three
C22_Witness ==
    /\ outcome.op = "beacon_clients_by_last_response"
    /\ beacon.clients = 3
    /\ beacon.best_beacon_instance = 2
    /\ outcome.clients[1] = 2

\* C23: the ordering helper returns the best client first and the other
\* clients in their original relative order.
C23_OthersKeepOrder ==
    outcome.op = "beacon_clients_by_last_response" =>
        /\ outcome.clients /= <<>> => outcome.clients[1] = beacon.best_beacon_instance
        /\ \A j, k \in 2..Len(outcome.clients) :
                j < k => outcome.clients[j] < outcome.clients[k]

\* the number of times `slot` is in the queue
Count(queue, slot) == Cardinality({ j \in DOMAIN queue : queue[j] = slot })

\* the number of tasks that have the report of `slot` still to handle
Pending(slot) ==
    Cardinality({ j \in DOMAIN sse.task :
        \E n \in DOMAIN sse.task[j].stream : sse.task[j].stream[n] = HeadMessage(slot) })

\* C24: subscribe_to_head_events starts one task per beacon client, every
\* head a task decodes is sent into the channel, and so a head reported by
\* k healthy nodes is, once their tasks have handled it, k times in the
\* receiver of every subscribed provider that has not lagged.
C24_OneDeliveryPerNode ==
    /\ sse.task /= <<>> => Len(sse.task) = beacon.clients
    /\ (outcome.op = "subscribe_to_sse" /\ outcome.item.kind = "Message"
            /\ outcome.item.parses) => outcome.send /= "none"
    /\ \A h \in DOMAIN sse.heads :
          LET slot == sse.heads[h]
              k == Cardinality({ j \in DOMAIN sse.task : sse.task[j].healthy })
          IN  /\ (provider_pc /= "stopped" /\ ~rx_lagged)
                    => Count(rx_queue, slot) + Pending(slot) = k
              /\ \A r \in DOMAIN rx_other :
                    ~rx_other[r].lagged
                        => Count(rx_other[r].queue, slot) + Pending(slot) = k

\* two healthy nodes: the first head is twice in either receiver
C24_Witness ==
    /\ Len(sse.task) = 2
    /\ \A j \in DOMAIN sse.task : sse.task[j].healthy
    /\ sse.heads /= <<>>
    /\ provider_pc /= "stopped"
    /\ Count(rx_queue, sse.heads[1]) = 2
    /\ rx_other /= <<>>
    /\ Count(rx_other[1].queue, sse.heads[1]) = 2

\* C25: an SSE task never returns; a chunk that does not parse and a send
\* without subscribers leave the stream open with the next item to handle;
\* a stream error and the end of the stream put the task to sleep, and the
\* only thing a sleeping task does is to open a new connection, which it
\* always can.
C25_SseLoopGoesOn ==
    [][\A j \in DOMAIN sse.task :
        LET handled == outcome'.op = "subscribe_to_sse" /\ outcome'.client = j - 1
        IN  /\ sse'.task[j].pc \in {"streaming", "sleeping"}
            /\ (/\ handled
                /\ outcome'.item.kind = "Message"
                /\ ~outcome'.item.parses \/ outcome'.send = "Err")
                    => /\ sse'.task[j].pc = "streaming"
                       /\ sse'.task[j].stream = Tail(sse.task[j].stream)
            /\ (handled /\ outcome'.item.kind \in {"Err", "End"})
                    => /\ sse'.task[j].pc = "sleeping"
                       /\ sse'.task[j].stream = <<>>
            /\ sse.task[j].pc = "sleeping"
                    => /\ ENABLED SseReconnect(j - 1)
                       /\ sse'.task[j] /= sse.task[j]
                            => /\ outcome'.op = "reconnect"
                               /\ sse'.task[j].pc = "streaming"]_vars

\* a task has slept and opened a new connection
C25_Witness ==
    /\ outcome.op = "reconnect"
    /\ sse.task[outcome.client + 1].pc = "streaming"

\* C26: get_elected_preconfer_for_slot returns none on a 204 answer, the
\* decoded election on any other 2xx answer, and fails on every non-2xx
\* answer and on every transport error.
C26_ForSlotByStatus ==
    outcome.op = "get_elected_preconfer_for_slot" =>
        LET answer == outcome.answer
        IN  /\ ~answer.sent => outcome.returned.tag = "Err"
            /\ (answer.sent /\ answer.status = 204) => outcome.returned.tag = "None"
            /\ (answer.sent /\ answer.status \in 200..299 /\ answer.status /= 204
                    /\ answer.body /= {})
                    => /\ outcome.returned.tag = "Some"
                       /\ outcome.returned.elections[1] \in answer.body
            /\ (answer.sent /\ answer.status \notin 200..299)
                    => outcome.returned.tag = "Err"

\* C27: with lookahead disabled get_elected_preconfers_for_epoch(e) makes
\* one per-slot request for each slot 32e .. 32e+31, returns Some of the
\* elections of the requests that returned one, in slot order, and None
\* when no request returned one; with lookahead enabled it makes no
\* per-slot request and returns what the lookahead GET gives.
C27_ForEpoch ==
    outcome.op = "get_elected_preconfers_for_epoch" =>
        IF outcome.enabled
        THEN /\ outcome.requested = <<>>
             /\ outcome.returned.tag =
                    (IF ~outcome.answer.sent THEN "Err"
                     ELSE IF outcome.answer.status = 204 THEN "None"
                     ELSE IF outcome.answer.body = {} THEN "Err" ELSE "Some")
             /\ outcome.returned.tag = "Some"
                    => outcome.returned.elections \in outcome.answer.body
        ELSE LET with_election ==
                    SelectSeq(outcome.results, LAMBDA r : r.tag = "Some")
             IN  /\ Len(outcome.requested) = 32
                 /\ \A i \in 1..32 :
                        outcome.requested[i] = 32 * outcome.epoch + (i - 1)
                 /\ Len(outcome.results) = 32
                 /\ IF with_election = <<>>
                    THEN outcome.returned = [tag |-> "None", elections |-> <<>>]
                    ELSE /\ outcome.returned.tag = "Some"
                         /\ outcome.returned.elections =
                                [j \in 1..Len(with_election) |->
                                    with_election[j].elections[1]]

\* of the 32 requests of epoch 1 some fail, some return none and two or
\* more return an election
C27_Witness ==
    /\ outcome.op = "get_elected_preconfers_for_epoch"
    /\ ~outcome.enabled
    /\ outcome.epoch = 1
    /\ outcome.requested[32] = 63
    /\ \E i \in 1..32 : outcome.results[i].tag = "Err"
    /\ \E i \in 1..32 : outcome.results[i].tag = "None"
    /\ outcome.returned.tag = "Some"
    /\ Len(outcome.returned.elections) \in 2..31

\* C28: a table with url-provider = "registry" is rejected when its registry
\* is absent or has no entry, so the registry map of every manager built
\* with the Registry policy has an entry.
C28_RegistryNeedsEntries ==
    outcome.op = "Lookahead::deserialize" =>
        /\ (/\ outcome.helper.url_provider = "registry"
            /\ \A m \in outcome.helper.registry : DOMAIN m = {})
                => outcome.returned.tag = "Err"
        /\ \A manager \in outcome.manager :
                manager.url_provider = "UrlMap" => DOMAIN manager.url_map /= {}

\* C29: a POST to / is answered 400 with the body "missing chain-id
\* parameter"; the handler reads no manager's table and issues no outbound
\* request.
C29_MissingChainId ==
    [][outcome'.op = "forward_request" =>
        /\ outcome'.status = 400
        /\ outcome'.body = <<"missing chain-id parameter">>
        /\ ~outcome'.read_table
        /\ outcome'.outbound = <<>>
        /\ ~outcome'.panicked
        /\ traffic' = traffic
        /\ lookahead' = lookahead]_vars

\* a POST / to a gateway whose manager resolves a URL and has forwarded
\* requests before
C29_Witness ==
    /\ outcome.op = "forward_request"
    /\ traffic.received > 0
    /\ \E url_result \in get_url(config, lookahead) : url_result.tag = "Ok"

\* C30: a send of a head into the channel is possible whatever the provider
\* does and however many heads its receiver retains; it leaves the provider
\* where it is, every receiver retains the head, and a receiver that
\* retains 16 heads loses the oldest one and is marked lagged, whatever the
\* other receivers retain.
C30_SendNeverWaits ==
    [][/\ ENABLED SseSend(FirstHead + Len(sse.heads))
       /\ outcome'.op = "send" =>
            /\ provider_pc' = provider_pc
            /\ IF Len(rx_queue) < 16
               THEN rx_queue' = Append(rx_queue, outcome'.slot) /\ rx_lagged' = rx_lagged
               ELSE rx_queue' = Append(Tail(rx_queue), outcome'.slot) /\ rx_lagged'
            /\ Len(rx_other') = Len(rx_other)
            /\ \A r \in DOMAIN rx_other :
                    IF Len(rx_other[r].queue) < 16
                    THEN /\ rx_other'[r].queue = Append(rx_other[r].queue, outcome'.slot)
                         /\ rx_other'[r].lagged = rx_other[r].lagged
                    ELSE /\ rx_other'[r].queue =
                                Append(Tail(rx_other[r].queue), outcome'.slot)
                         /\ rx_other'[r].lagged]_vars

\* a head is sent while the provider is in a relay fetch with 16 heads
\* unread: the provider's receiver is overrun, the other chain's receiver
\* has the head and is not
C30_Witness ==
    /\ outcome.op = "send"
    /\ provider_pc = "fetching"
    /\ Len(rx_queue) = 16
    /\ rx_lagged
    /\ rx_other /= <<>>
    /\ ~rx_other[1].lagged
    /\ Len(rx_other[1].queue) \in 1..15
    /\ rx_other[1].queue[Len(rx_other[1].queue)] = outcome.slot

\* C31: the chain has one provider task at most; it receives a head event
\* only when it is at recv() with no fetch running, and then the oldest
\* event its receiver retains; while a fetch runs no event is received and
\* no other fetch starts; the table changes only in a step of that task
\* (the pruning of the event it takes, a turn of its fetch loop).
C31_OneEventAtATime ==
    [][/\ tasks' <= 1
       /\ Len(rx_queue') < Len(rx_queue) =>
            /\ tasks = 1
            /\ provider_pc = "recv"
            /\ next_relay = 0
            /\ fetch_epoch = 0
            /\ ~rx_lagged => head_event' = {[slot |-> Head(rx_queue),
                                 again |-> \E e \in head_event : e.slot = Head(rx_queue)]}
       /\ provider_pc = "fetching" =>
            /\ Len(rx_queue') >= Len(rx_queue)
            /\ head_event' = head_event
            /\ fetches' = fetches
            /\ head_slot' = head_slot
       /\ lookahead' /= lookahead =>
            \/ TakesEvent /\ provider_pc' \in {"recv", "fetching"}
            \/ provider_pc = "fetching" /\ next_relay' \in {next_relay + 1, 0}
      ]_vars

\* the fetch started at slot 6 wrote the table and ended, then the event of
\* slot 7 was received
C31_Witness ==
    /\ provider_pc = "recv"
    /\ \E e \in head_event : e.slot = 7
    /\ head_slot = 7
    /\ FetchCount(6) = 1
    /\ curr_lookahead_epoch = 1
    /\ Keys /= {}

\* C32: during a fetch in which every relay fails or has no election the
\* table stays as the pruning step left it; the fetch ends with the
\* provider back at recv(), its task alive and the epoch recorded, and a
\* provider at recv() takes the next event its receiver retains.
C32_EmptyFetchIsNoOp ==
    [][/\ (provider_pc = "fetching" /\ fetch_epoch = 2) =>
            /\ lookahead' = lookahead
            /\ tasks' = tasks
            /\ provider_pc' \in {"fetching", "recv"}
            /\ provider_pc' = "recv" => curr_lookahead_epoch' = 2
       /\ (provider_pc = "recv" /\ rx_queue /= <<>>) => ENABLED ProviderRecv
      ]_vars

\* the fetch started at slot 36 found no election: the entry of slot 40
\* written before is what the table holds, and the provider has taken the
\* event of slot 37
C32_Witness ==
    /\ head_slot = 37
    /\ provider_pc = "recv"
    /\ FetchCount(36) = 1
    /\ curr_lookahead_epoch = 2
    /\ Keys = {40}

\* the number of fetches issued at the slots of `slots`
RECURSIVE FetchesAt(_)
FetchesAt(slots) ==
    IF slots = {} THEN 0
    ELSE LET s == CHOOSE x \in slots : TRUE
         IN  FetchCount(s) + FetchesAt(slots \ {s})

\* the number of fetches issued at the slots of epoch k
FetchesIn(k) == FetchesAt((32 * k)..(32 * k + 31))

C34_NoneModeIsInert ==
    [][config.provider = "None" =>
        /\ lookahead' = lookahead
        /\ get_url(config, lookahead') = get_url(config, lookahead)
        /\ Len(rx_queue') >= Len(rx_queue)
        /\ head_event' = head_event
        /\ head_slot' = head_slot
        /\ curr_lookahead_epoch' = curr_lookahead_epoch
        /\ fetches' = fetches
        /\ provider_pc' \in {"unspawned", "waiting"}
        /\ tasks = 1 => (tasks' = 1 /\ provider_pc' = "waiting")
        /\ (outcome'.op = "run_provider" /\ provider_manager = "Initialized") =>
                /\ provider_manager' = "Running"
                /\ tasks' = 1
                /\ outcome'.result.tag = "Ok"
      ]_vars

\* the manager of a None provider is Running, heads wait unread in the
\* channel, and a request is forwarded to the URL of the seeded entry
C34_Witness ==
    /\ config.provider = "None"
    /\ provider_manager = "Running"
    /\ provider_pc = "waiting"
    /\ Len(rx_queue) = MaxQueued
    /\ Keys = {0, 7}
    /\ outcome.op = "http"
    /\ outcome.status = 200

\* C35: the manager's lifecycle state is always Initialized or Running,
\* never absent, and no run_provider call crashes: a call on a manager that
\* is not Initialized returns the 'already running' error.
C35_LifecycleNeverAbsent ==
    /\ provider_manager \in {"Initialized", "Running"}
    /\ outcome.op = "run_provider" =>
            outcome.result \in {Ok(""), Err(AlreadyRunningMsg)}

\* C36: every entry of the table sits under the key equal to the slot of its
\* own election, and the entries get_next_elected_preconfer can return (the
\* minimum over election slots) are those whose election slot is the
\* minimum key.
C36_KeyIsElectionSlot ==
    /\ \A k \in Keys : EntrySlot(lookahead.map[k]) = k
    /\ Keys /= {} =>
            /\ get_next_elected_preconfer(lookahead) /= {}
            /\ \A entry \in get_next_elected_preconfer(lookahead) : EntrySlot(entry) = MinKey

\* the provider has written the elections of two slots and is back at recv()
C36_Witness ==
    /\ provider_pc = "recv"
    /\ fetches /= EmptyMap
    /\ Keys = {7, 40}
    /\ get_next_elected_preconfer(lookahead) = {lookahead.map[7]}

\* the elections of a fetch in the order of the relay list, each relay's
\* list in its own order
RECURSIVE Reported(_)
Reported(results) ==
    IF results = <<>> THEN <<>>
    ELSE (IF Head(results).tag = "Some" THEN Head(results).elections ELSE <<>>)
            \o Reported(Tail(results))

\* the last election of a list for a slot
LastFor(elections, slot) ==
    elections[CHOOSE i \in 1..Len(elections) :
                /\ elections[i].slot_number = slot
                /\ \A j \in 1..Len(elections) : elections[j].slot_number = slot => j <= i]

\* C37: after a fetch, the entry under every slot the relays reported holds
\* the election that comes last for that slot in the order of the relay list
\* (within one relay's list, the later element), whatever the order in which
\* the relays' answers completed.
C37_LaterRelayWins ==
    outcome.op = "join_fetch" =>
        \A i \in 1..Len(Reported(outcome.results)) :
            LET slot == Reported(outcome.results)[i].slot_number
            IN  /\ slot \in Keys
                /\ lookahead.map[slot].election = LastFor(Reported(outcome.results), slot)

\* two relays report different elections for slot 7, the second relay's
\* answer completes first, and the table holds the second relay's election
C37_Witness ==
    /\ outcome.op = "join_fetch"
    /\ outcome.order = <<2, 1>>
    /\ outcome.results[1].tag = "Some"
    /\ outcome.results[2].tag = "Some"
    /\ \E i \in 1..Len(outcome.results[1].elections),
          j \in 1..Len(outcome.results[2].elections) :
            /\ outcome.results[1].elections[i].slot_number = 7
            /\ outcome.results[2].elections[j].slot_number = 7
            /\ outcome.results[1].elections[i] /= outcome.results[2].elections[j]
            /\ lookahead.map[7].election = outcome.results[2].elections[j]
            /\ Len(outcome.results[2].elections) = j

\* get_url fails with NoLookahead on the table l
FailsNoLookahead(l) == Err(NoLookaheadMsg) \in get_url(config, l)

\* C38: when a relay answers the fetch of an accepted head h (h % 6 = 0) with
\* an election for a slot >= h, get_url does not fail with NoLookahead once
\* that answer is written; and get_url starts failing with NoLookahead again
\* only when the provider processes a head event whose slot is greater than
\* every stored slot.
C38_ElectionKeepsUrl ==
    [][ /\ \A result \in SingleAnswers :
              ( /\ FetchResult(result)
                /\ \E i \in 1..Len(result.elections) :
                        result.elections[i].slot_number >= head_slot )
              => /\ head_slot % FETCH_EVERY = 0
                 /\ ~FailsNoLookahead(lookahead')
        /\ (~FailsNoLookahead(lookahead) /\ FailsNoLookahead(lookahead'))
              => /\ TakesEvent
                 /\ head_slot' = Head(rx_queue)
                 /\ \A k \in Keys : Head(rx_queue) > k
      ]_vars

\* the fetch at head 6 stored the election of slot 7; the head of slot 7 has
\* been processed since and a request is still forwarded
C38_Witness ==
    /\ provider_pc = "recv"
    /\ 6 \in DOMAIN fetches
    /\ head_slot = 7
    /\ Keys = {7}
    /\ outcome.op = "http"
    /\ outcome.status = 200

\* C39: a provider whose head_slot is still 0 drops a head event with slot 0
\* (no change of head_slot or of the table, no fetch, back at recv()); every
\* slot head_slot moves to is >= 1 and every slot a fetch was issued at is >= 6.
C39_SlotZeroIgnored ==
    [][ /\ (TakesEvent /\ head_slot = 0 /\ Head(rx_queue) = 0)
              => /\ head_slot' = 0
                 /\ lookahead' = lookahead
                 /\ fetches' = fetches
                 /\ fetch_epoch' = fetch_epoch
                 /\ provider_pc' = "recv"
        /\ head_slot' /= head_slot => head_slot' >= 1
        /\ \A slot \in DOMAIN fetches' : slot >= 6
      ]_vars

\* the fresh provider has just taken a head of slot 0
C39_Witness ==
    /\ provider_pc = "recv"
    /\ head_slot = 0
    /\ head_event = {[slot |-> 0, again |-> FALSE]}
    /\ fetches = EmptyMap

\* the ids of the clients of the list
ClientIds == 0..(beacon.clients - 1)

\* C40: with get_proposer_duties calls interleaved in any way, the stored
\* best index is 0 or the id of a client of the list, and the list the
\* ordering helper builds holds every client exactly once.
C40_BestIndexIsAClient ==
    LET order == beacon_clients_by_last_response(beacon.clients,
                                                 beacon.best_beacon_instance)
    IN  /\ beacon.best_beacon_instance = 0 \/ beacon.best_beacon_instance \in ClientIds
        /\ Len(order) = beacon.clients
        /\ \A id \in ClientIds : Count(order, id) = 1
        /\ \A caller \in DutiesCallers : \A call \in duties_calls[caller] :
                \A id \in ClientIds : Count(call.clients, id) = 1

\* two calls are in flight on lists ordered differently (the best index moved
\* between their starts), the older one past its first client, and the helper
\* has just been called
C40_Witness ==
    /\ \E c1 \in duties_calls["caller1"], c2 \in duties_calls["caller2"] :
            /\ c1.clients /= c2.clients
            /\ c1.j > 1
            /\ beacon.best_beacon_instance = c2.clients[1]
            /\ beacon.best_beacon_instance /= 0
    /\ outcome.op = "beacon_clients_by_last_response"

====
